---- MODULE Spec2Model ----
(***************************************************************************)
(* A model of infinigen-rs: an infinite 2D tile world persisted as chunks  *)
(* grouped into region files, with a windowed load/unload policy.          *)
(*                                                                         *)
(* Region file layer  : src/lib/src/managed_region.rs, src/lib/src/region.rs*)
(* Region manager     : src/lib/src/traits.rs, src/example/src/world.rs    *)
(* Residency control  : src/example/src/world.rs (World)                   *)
(*                                                                         *)
(* The specifications share the variables:                                    *)
(*   SpecIndex  - the pure index mappings applied to bounded inputs        *)
(*   SpecRegion - one region file driven by write_chunk / read_chunk       *)
(*   Spec       - the World: observer moves, update_chunks, save, restart  *)
(*   SpecDudes  - a World with auxiliary objects placed on its cells       *)
(*   SpecPad    - padding and sector count applied to bounded lengths      *)
(*   SpecCodec  - compress_data and decompress_data applied to byte vectors *)
(***************************************************************************)
EXTENDS Integers, Sequences, FiniteSets, TLC

VARIABLES
    observer,   \* World.observer : world position <<x, y>>
    chunks,     \* World.chunks   : resident ChunkIndex -> payload
    regions,    \* RegionManager.regions : loaded RegionIndex -> unsaved_chunks
    disk,       \* the save directory : RegionIndex of existing file -> file
    pc,         \* position of the caller: "idle", "updating", "saving", "saved", "panicked"
    genCount,   \* instrumentation: ChunkIndex -> number of generator calls
    call,       \* instrumentation of the current / last top-level call
    saved,      \* instrumentation: what was resident when save() began
    dudes,      \* World.dudes    : world position -> Dude
    input,      \* argument of the pure function under test (SpecIndex)
    output,     \* its result (SpecIndex)
    rlog        \* SpecRegion: the read that just returned Ok, and the last payload
                \* each chunk was successfully written with

vars == <<observer, chunks, regions, disk, pc, genCount, call, saved, dudes, input,
          output, rlog>>

worldVars == <<observer, chunks, regions, disk, pc, genCount, call, saved, dudes>>

(***************************************************************************)
(* Program constants                                                       *)
(***************************************************************************)
SECTOR_SIZE == 4096

REGION_WIDTH == 16

CHUNK_WIDTH == 32

\* One more than the largest value of a u8 (the `as u8` casts of
\* create_lookup_table_entry and append_chunk).
U8_RANGE == 256

(***************************************************************************)
(* Bounds of the model                                                     *)
(***************************************************************************)
\* The program's UPDATE_RADIUS is 3 (src/example/src/world.rs:258); the model
\* runs the same window construction with a smaller radius.
UPDATE_RADIUS == 1

\* Chunk coordinates fed to the index mappings range over -MaxCoord..MaxCoord.
MaxCoord == 34

\* Payload contents are told apart by a value 0..MaxPayloadValue.
MaxPayloadValue == 1

\* A chunk index is generated at most this many times before the model stops
\* counting (the generator itself is unbounded).
MaxGen == 2

\* How many times a call of the I/O layer returns Err in one behaviour.
MaxFaults == 1

(***************************************************************************)
(* Helpers without a counterpart in the source                             *)
(***************************************************************************)
EmptyMap == [x \in {} |-> 0]

MapPut(f, k, v) == [x \in (DOMAIN f) \cup {k} |-> IF x = k THEN v ELSE f[x]]

MapDel(f, k) == [x \in (DOMAIN f) \ {k} |-> f[x]]

Abs(n) == IF n < 0 THEN -n ELSE n

\* Rust's `/` and `%` on i32: truncation toward zero, remainder with the sign
\* of the dividend.
TruncDiv(a, b) == IF a >= 0 THEN a \div b ELSE -((-a) \div b)

TruncRem(a, b) == a - b * TruncDiv(a, b)

NoOutput == [done |-> FALSE]

(***************************************************************************)
(* Index mapping (managed_region.rs)                                       *)
(***************************************************************************)
lookup_table_size == (REGION_WIDTH * REGION_WIDTH) * 2

\* A variant of the closure `conv` of get_region_index that divides without
\* first moving a negative coordinate down by REGION_WIDTH.
region_conv_truncating(q, d) == TruncDiv(q, d)

\* The closure `conv` of get_region_index.
region_conv(q, d) ==
    LET q2 == IF q < 0 THEN q - REGION_WIDTH ELSE q
    IN  TruncDiv(q2, d)

get_region_index(chunk_index) ==
    <<region_conv(chunk_index[1], REGION_WIDTH),
      region_conv(chunk_index[2], REGION_WIDTH)>>

\* A variant of the closure `conv` of normalize_chunk_index that keeps the
\* truncating remainder.
normalize_conv_truncating(i) == TruncRem(i, REGION_WIDTH)

\* The closure `conv` of normalize_chunk_index.
normalize_conv(i) ==
    LET i_new == TruncRem(i, REGION_WIDTH)
    IN  IF i_new < 0 THEN REGION_WIDTH + i_new ELSE i_new

normalize_chunk_index(chunk_index) ==
    <<normalize_conv(chunk_index[1]), normalize_conv(chunk_index[2])>>

\* Byte offset of a slot inside the lookup table.
get_chunk_offset(index) ==
    2 * (TruncRem(index[1], REGION_WIDTH)
         + TruncRem(index[2], REGION_WIDTH) * REGION_WIDTH)

\* ChunkIndex::from_world_pos (example/src/chunk.rs).
from_world_conv(i) ==
    IF i < 0 THEN TruncDiv(i + 1, CHUNK_WIDTH) - 1 ELSE TruncDiv(i, CHUNK_WIDTH)

from_world_pos(pos) == <<from_world_conv(pos[1]), from_world_conv(pos[2])>>

(***************************************************************************)
(* Payloads and their encoding (managed_region.rs: write_chunk, read_chunk,*)
(* compress_data, decompress_data, pad_byte_vec)                           *)
(*                                                                         *)
(* A payload is [v, len]: an opaque content v and the length len, in bytes,*)
(* of its serialized and compressed form.  The data area of a file is a    *)
(* sequence of runs; the run [p, from, len] stands for the bytes           *)
(* from..from+len-1 of the padded encoding of p (4-byte length header,     *)
(* compressed bytes, zero padding).  A run of ZeroPayload is zero bytes.   *)
(***************************************************************************)
ZeroPayload == [v |-> <<>>, len |-> 0]

ZeroRun(n) == [p |-> ZeroPayload, from |-> 0, len |-> n]

\* A variant of pad_byte_vec that pushes nothing.
pad_byte_vec_none(len, size) == len

\* pad_byte_vec pushes size - (len % size) zero bytes; the result is the new
\* length of the vector.
pad_byte_vec(len, size) == len + (size - (len % size))

\* compress_data: a 4-byte header (serialize_u32 of the compressed length)
\* followed by the compressed bytes.
compress_data_len(p) == 4 + p.len

\* The padded encoding of a chunk as write_chunk builds it.
encode_chunk(p) ==
    [p |-> p, from |-> 0, len |-> pad_byte_vec(compress_data_len(p), SECTOR_SIZE)]

RECURSIVE DataLen(_)
DataLen(d) == IF d = <<>> THEN 0 ELSE Head(d).len + DataLen(Tail(d))

\* The first n bytes of d; bytes past the end read as zero.
RECURSIVE TakeBytes(_, _)
TakeBytes(d, n) ==
    IF n <= 0 THEN <<>>
    ELSE IF d = <<>> THEN <<ZeroRun(n)>>
    ELSE LET r == Head(d)
         IN  IF r.len <= n
             THEN <<r>> \o TakeBytes(Tail(d), n - r.len)
             ELSE <<[r EXCEPT !.len = n]>>

\* What is left of a run once its first n bytes are gone: the tail of an
\* encoding is zero padding when it starts at or after the end of the
\* compressed bytes, and otherwise bytes from the middle of an encoding,
\* which no decoder can tell apart (StalePayload).
StalePayload == [v |-> <<>>, len |-> 1]

RunTail(r, n) ==
    IF r.p = ZeroPayload \/ (r.p # StalePayload /\ r.from + n >= compress_data_len(r.p))
    THEN ZeroRun(r.len - n)
    ELSE [p |-> StalePayload, from |-> 1, len |-> r.len - n]

\* d without its first n bytes.
RECURSIVE DropBytes(_, _)
DropBytes(d, n) ==
    IF n <= 0 THEN d
    ELSE IF d = <<>> THEN <<>>
    ELSE LET r == Head(d)
         IN  IF r.len <= n
             THEN DropBytes(Tail(d), n - r.len)
             ELSE <<RunTail(r, n)>> \o Tail(d)

\* Adjacent runs of zero bytes, or of stale bytes, are one run.
RECURSIVE Merge(_)
Merge(d) ==
    IF Len(d) < 2 THEN d
    ELSE LET a == d[1]
             b == d[2]
         IN  IF a.p = b.p /\ a.p \in {ZeroPayload, StalePayload}
             THEN Merge(<<[a EXCEPT !.len = a.len + b.len]>> \o Tail(Tail(d)))
             ELSE <<a>> \o Merge(Tail(d))

(***************************************************************************)
(* Region file (managed_region.rs).  A file is [tbl, data]: tbl maps the   *)
(* byte offsets of the lookup table that hold a non-zero byte to that byte,*)
(* data is the run sequence that follows the lookup table.                 *)
(***************************************************************************)
\* get_region_file on a path that does not exist: lookup_table_size zero bytes.
NewRegionFile == [tbl |-> EmptyMap, data |-> <<>>]

\* seek(SeekFrom::End(0))
FileLen(f) == lookup_table_size + DataLen(f.data)

TableByte(f, off) == IF off \in DOMAIN f.tbl THEN f.tbl[off] ELSE 0

\* read_bytes(offset, 2) inside the lookup table.
read_table_bytes(f, offset) == <<TableByte(f, offset), TableByte(f, offset + 1)>>

\* read_bytes(offset, size) inside the data area: a short read leaves zeros.
read_bytes(f, offset, size) ==
    TakeBytes(DropBytes(f.data, offset - lookup_table_size), size)

\* seek(SeekFrom::Start(offset)) then write(chunk_data) in the data area.
write_bytes(f, offset, run) ==
    LET x == offset - lookup_table_size
    IN  [f EXCEPT !.data = Merge(TakeBytes(f.data, x) \o <<run>> \o DropBytes(f.data, x + run.len))]

SetTableByte(tbl, off, b) == IF b = 0 THEN MapDel(tbl, off) ELSE MapPut(tbl, off, b)

\* A variant of create_lookup_table_entry without the cast of the offset to u8.
create_lookup_table_entry_uncast(eof, sector_count) ==
    <<(eof - lookup_table_size) \div SECTOR_SIZE, sector_count>>

create_lookup_table_entry(eof, sector_count) ==
    <<((eof - lookup_table_size) \div SECTOR_SIZE) % U8_RANGE, sector_count>>

read_chunk_offset(f, index) ==
    LET data == read_table_bytes(f, get_chunk_offset(index))
    IN  [offset |-> lookup_table_size + data[1] * SECTOR_SIZE,
         some   |-> data[2] # 0,
         size   |-> data[2] * SECTOR_SIZE]

write_chunk_offset(f, index, new_offset, sector_count) ==
    LET val    == create_lookup_table_entry(new_offset, sector_count)
        offset == get_chunk_offset(index)
    IN  [f EXCEPT !.tbl = SetTableByte(SetTableByte(f.tbl, offset, val[1]),
                                       offset + 1, val[2])]

\* A variant of update_chunk that writes the record at the end of the file
\* and leaves the slot alone.
update_chunk_at_eof(f, chunk_data, byte_offset) == write_bytes(f, FileLen(f), chunk_data)

\* update_chunk: the record is written at the slot's offset.
update_chunk(f, chunk_data, byte_offset) == write_bytes(f, byte_offset, chunk_data)

\* A variant of append_chunk that puts the record right after the lookup
\* table, whatever is there, and records that place in the slot.
append_chunk_at_table_end(f, chunk_data, index) ==
    LET sector_count == (chunk_data.len + SECTOR_SIZE - 1) \div SECTOR_SIZE
        f1 == write_bytes(f, lookup_table_size, chunk_data)
        f2 == write_chunk_offset(f1, index, lookup_table_size, sector_count % U8_RANGE)
    IN  IF ~(sector_count < 256) \/ ~(sector_count > 0)
        THEN [status |-> "panic", file |-> f]
        ELSE [status |-> "ok", file |-> f2]

\* append_chunk: [status, file].  The two leading assertions panic before the
\* file is touched; the trailing ones panic after the record and the slot
\* were written.
append_chunk(f, chunk_data, index) ==
    LET sector_count == (chunk_data.len + SECTOR_SIZE - 1) \div SECTOR_SIZE
        new_offset   == FileLen(f)
        f1 == write_bytes(f, new_offset, chunk_data)
        f2 == write_chunk_offset(f1, index, new_offset, sector_count % U8_RANGE)
        ov == read_chunk_offset(f2, index)
    IN  IF ~(sector_count < 256) \/ ~(sector_count > 0)
        THEN [status |-> "panic", file |-> f]
        ELSE IF new_offset # ov.offset \/ ~ov.some \/ sector_count * SECTOR_SIZE # ov.size
        THEN [status |-> "panic", file |-> f2]
        ELSE [status |-> "ok", file |-> f2]

\* A variant of write_chunk that writes the record and never marks the chunk
\* as saved.
write_chunk_keeping_dirty(f, unsaved, chunk, index) ==
    LET compressed     == encode_chunk(chunk)
        normalized_idx == normalize_chunk_index(index)
        os             == read_chunk_offset(f, normalized_idx)
        appended       == append_chunk(f, compressed, normalized_idx)
    IN  IF index \notin unsaved \/ (os.some /\ ~(os.size >= compressed.len))
        THEN [status |-> "panic", file |-> f, unsaved |-> unsaved]
        ELSE IF os.some
        THEN [status |-> "ok", file |-> update_chunk(f, compressed, os.offset),
              unsaved |-> unsaved]
        ELSE [status |-> appended.status, file |-> appended.file, unsaved |-> unsaved]

\* A variant of write_chunk that appends the record whether or not the slot
\* already names one.
write_chunk_relocating(f, unsaved, chunk, index) ==
    LET appended == append_chunk(f, encode_chunk(chunk), normalize_chunk_index(index))
    IN  IF index \notin unsaved
        THEN [status |-> "panic", file |-> f, unsaved |-> unsaved]
        ELSE IF appended.status = "ok"
        THEN [status |-> "ok", file |-> appended.file, unsaved |-> unsaved \ {index}]
        ELSE [status |-> appended.status, file |-> appended.file, unsaved |-> unsaved]

\* write_chunk on a region [file, unsaved]: [status, file, unsaved].
write_chunk(f, unsaved, chunk, index) ==
    LET compressed     == encode_chunk(chunk)
        normalized_idx == normalize_chunk_index(index)
        os             == read_chunk_offset(f, normalized_idx)
        appended       == append_chunk(f, compressed, normalized_idx)
    IN  IF index \notin unsaved
        THEN [status |-> "panic", file |-> f, unsaved |-> unsaved]
        ELSE IF os.some
        THEN IF ~(os.size >= compressed.len)
             THEN [status |-> "panic", file |-> f, unsaved |-> unsaved]
             ELSE [status  |-> "ok",
                   file    |-> update_chunk(f, compressed, os.offset),
                   unsaved |-> unsaved \ {index}]
        ELSE IF appended.status = "ok"
        THEN [status |-> "ok", file |-> appended.file, unsaved |-> unsaved \ {index}]
        ELSE [status |-> appended.status, file |-> appended.file, unsaved |-> unsaved]

\* A variant of write_chunk_failures with mark_as_saved moved ahead of the
\* calls that can fail.
write_chunk_failures_marked_saved(f, unsaved, chunk, index) ==
    IF index \notin unsaved THEN {}
    ELSE {[status |-> "err", file |-> f, unsaved |-> unsaved \ {index}]}

\* A variant of write_chunk_failures in which append_chunk writes the slot
\* before the record, and fails between the two.
write_chunk_failures_slot_first(f, unsaved, chunk, index) ==
    LET compressed     == encode_chunk(chunk)
        normalized_idx == normalize_chunk_index(index)
        os             == read_chunk_offset(f, normalized_idx)
        sector_count   == (compressed.len + SECTOR_SIZE - 1) \div SECTOR_SIZE
    IN  IF index \notin unsaved THEN {}
        ELSE {[status |-> "err", file |-> f, unsaved |-> unsaved]} \cup
             (IF ~os.some /\ sector_count < 256 /\ sector_count > 0
              THEN {[status  |-> "err",
                     file    |-> write_chunk_offset(f, normalized_idx, FileLen(f),
                                                    sector_count % U8_RANGE),
                     unsaved |-> unsaved]}
              ELSE {})

\* The ways write_chunk returns Err: [status, file, unsaved].  serialize or
\* compress_data fails, or a seek or write of update_chunk / append_chunk
\* fails, with the file as it was; or write_chunk_offset fails after
\* append_chunk wrote the record, with the record behind the old end of file
\* and the slot still empty.  mark_as_saved is not reached.
write_chunk_failures(f, unsaved, chunk, index) ==
    LET compressed     == encode_chunk(chunk)
        normalized_idx == normalize_chunk_index(index)
        os             == read_chunk_offset(f, normalized_idx)
        sector_count   == (compressed.len + SECTOR_SIZE - 1) \div SECTOR_SIZE
    IN  IF index \notin unsaved THEN {}
        ELSE {[status |-> "err", file |-> f, unsaved |-> unsaved]} \cup
             (IF ~os.some /\ sector_count < 256 /\ sector_count > 0
              THEN {[status  |-> "err",
                     file    |-> write_bytes(f, FileLen(f), compressed),
                     unsaved |-> unsaved]}
              ELSE {})

\* decompress_data followed by bincode::deserialize on the bytes read_bytes
\* returned: the set of possible outcomes [status, chunk].  The header is
\* read from the first four bytes; `&bytes[4..4 + data_length]` panics when
\* the buffer is shorter; bytes that are not the encoding the header
\* announces fail to inflate or to deserialize (status "err": an IoError or
\* an EncodingError value) or, when the header itself is garbage, may also
\* index past the buffer.
decode_chunk(buf) ==
    LET r      == buf[1]
        size   == DataLen(buf)
        needed == compress_data_len(r.p)
        fail(s) == [status |-> s, chunk |-> ZeroPayload]
    IN  IF r.p = ZeroPayload
        THEN {fail("err")}
        ELSE IF r.p = StalePayload \/ r.from # 0 \/ r.len < 4
        THEN {fail("err"), fail("panic")}
        ELSE IF needed > size
        THEN {fail("panic")}
        ELSE IF r.len < needed
        THEN {fail("err")}
        ELSE {[status |-> "ok", chunk |-> r.p]}

\* A variant of read_chunk that marks the chunk as unsaved before it decodes
\* the record.
read_chunk_marking_first(f, unsaved, index) ==
    LET normalized_idx == normalize_chunk_index(index)
        os             == read_chunk_offset(f, normalized_idx)
    IN  IF index \in unsaved
        THEN {[status |-> "panic", chunk |-> ZeroPayload, unsaved |-> unsaved,
               err |-> <<"none">>]}
        ELSE IF ~os.some
        THEN {[status |-> "no_chunk", chunk |-> ZeroPayload, unsaved |-> unsaved,
               err |-> <<"NoChunkInSavefile", normalized_idx>>]}
        ELSE {[status  |-> d.status,
               chunk   |-> d.chunk,
               unsaved |-> unsaved \cup {index},
               err     |-> <<"none">>]
              : d \in decode_chunk(read_bytes(f, os.offset, os.size))}

\* read_chunk on a region [file, unsaved]: the set of possible outcomes
\* [status, chunk, unsaved, err].  The file is only read.  err is the value
\* of the NoChunkInSavefile error; the errors of the codec carry nothing the
\* model looks at.
read_chunk(f, unsaved, index) ==
    LET normalized_idx == normalize_chunk_index(index)
        os             == read_chunk_offset(f, normalized_idx)
    IN  IF index \in unsaved
        THEN {[status |-> "panic", chunk |-> ZeroPayload, unsaved |-> unsaved,
               err |-> <<"none">>]}
        ELSE IF ~os.some
        THEN {[status |-> "no_chunk", chunk |-> ZeroPayload, unsaved |-> unsaved,
               err |-> <<"NoChunkInSavefile", normalized_idx>>]}
        ELSE {[status  |-> d.status,
               chunk   |-> d.chunk,
               unsaved |-> IF d.status = "ok" THEN unsaved \cup {index} ELSE unsaved,
               err     |-> <<"none">>]
              : d \in decode_chunk(read_bytes(f, os.offset, os.size))}

(***************************************************************************)
(* SpecRegion: one region file and its Region object, driven the way the   *)
(* residency controller drives them: a load (read_chunk, and               *)
(* receive_created_chunk when nothing usable was read) for a chunk that is *)
(* not unsaved, write_chunk for an unsaved chunk with whatever its payload *)
(* has become.                                                             *)
(* A panic ends the process; the file stays and a new process reopens it.  *)
(***************************************************************************)
R0 == <<-1, -1>>

RegionChunks ==
    {c \in {<<-1, -1>>, <<-2, -1>>, <<-15, -2>>} : get_region_index(c) = R0}

\* Compressed lengths that need 1 and 2 sectors once the header is added and
\* the padding applied (a length of SECTOR_SIZE - 4 fills one sector exactly
\* and pad_byte_vec then adds a whole sector).
SmallPayloadLens == {0, SECTOR_SIZE - 4}

\* A compressed length that needs 255 sectors, the most a slot can record.
BigPayloadLen == 255 * SECTOR_SIZE - 5

\* The one chunk of the model that is written with the big payload.
BigChunk == <<-2, -1>>

\* The payloads write_chunk is called with for chunk ci.
RegionPayloads(ci) ==
    {[v |-> <<n>>, len |-> l] : n \in 0..MaxPayloadValue, l \in SmallPayloadLens}
    \cup (IF ci = BigChunk THEN {[v |-> <<0>>, len |-> BigPayloadLen]} ELSE {})

InitRegion ==
    /\ observer = <<0, 0>>
    /\ chunks = EmptyMap
    /\ regions = [r \in {R0} |-> {}]
    /\ disk = [r \in {R0} |-> NewRegionFile]
    /\ pc = "region"
    /\ genCount = EmptyMap
    /\ call = [op |-> "none"]
    /\ saved = [valid |-> FALSE]
    /\ dudes = EmptyMap
    /\ input = <<0, 0>>
    /\ output = NoOutput
    /\ rlog = [op |-> "none", ci |-> <<0, 0>>, chunk |-> ZeroPayload,
               written |-> EmptyMap, faults |-> 0]

regionFrame == <<observer, chunks, genCount, call, saved, dudes, input, output>>

\* load_chunk seen from the region: read_chunk, and receive_created_chunk
\* (notify_chunk_creation) when the read returned an error value.
RLoad(ci) ==
    /\ pc = "region"
    /\ ci \notin regions[R0]
    /\ \E out \in read_chunk(disk[R0], regions[R0], ci) :
          /\ regions' = [regions EXCEPT ![R0] =
                            IF out.status \in {"no_chunk", "err"}
                            THEN out.unsaved \cup {ci} ELSE out.unsaved]
          /\ pc' = IF out.status = "panic" THEN "region_panicked" ELSE "region"
          /\ rlog' = IF out.status = "ok"
                      THEN [rlog EXCEPT !.op = "read", !.ci = ci, !.chunk = out.chunk]
                      ELSE [rlog EXCEPT !.op = "none", !.ci = <<0, 0>>, !.chunk = ZeroPayload]
    /\ UNCHANGED <<disk, regionFrame>>

RWrite(ci, p) ==
    /\ pc = "region"
    /\ ci \in regions[R0]
    /\ LET out == write_chunk(disk[R0], regions[R0], p, ci)
       IN  /\ disk' = [disk EXCEPT ![R0] = out.file]
           /\ regions' = [regions EXCEPT ![R0] = out.unsaved]
           /\ pc' = IF out.status = "panic" THEN "region_panicked" ELSE "region"
           /\ rlog' = [rlog EXCEPT !.op = "none", !.ci = <<0, 0>>, !.chunk = ZeroPayload,
                                   !.written = IF out.status = "ok"
                                               THEN MapPut(@, ci, p) ELSE @]
    /\ UNCHANGED regionFrame

\* The process that panicked is gone; a new one opens the same file.
RRestart ==
    /\ pc = "region_panicked"
    /\ pc' = "region"
    /\ regions' = [r \in {R0} |-> {}]
    /\ rlog' = [rlog EXCEPT !.op = "none", !.ci = <<0, 0>>, !.chunk = ZeroPayload]
    /\ UNCHANGED <<disk, regionFrame>>

NextRegion ==
    \/ \E ci \in RegionChunks : RLoad(ci)
    \/ \E ci \in RegionChunks : \E p \in RegionPayloads(ci) : RWrite(ci, p)
    \/ RRestart

SpecRegion == InitRegion /\ [][NextRegion]_vars

(***************************************************************************)
(* SpecRegionFault: SpecRegion with one-sector and two-sector payloads,    *)
(* where a write may also return Err (at most MaxFaults times), and where  *)
(* rlog keeps the outcome of the last write_chunk call.                    *)
(***************************************************************************)
FaultPayloads == {[v |-> <<0>>, len |-> l] : l \in SmallPayloadLens}

RWriteFault(ci, p) ==
    /\ pc = "region"
    /\ ci \in regions[R0]
    /\ \E out \in {write_chunk(disk[R0], regions[R0], p, ci)} \cup
                  (IF rlog.faults < MaxFaults
                   THEN write_chunk_failures(disk[R0], regions[R0], p, ci)
                   ELSE {}) :
           /\ disk' = [disk EXCEPT ![R0] = out.file]
           /\ regions' = [regions EXCEPT ![R0] = out.unsaved]
           /\ pc' = IF out.status = "panic" THEN "region_panicked" ELSE "region"
           /\ rlog' = [rlog EXCEPT
                         !.op = out.status, !.ci = ci, !.chunk = p,
                         !.written = IF out.status = "ok" THEN MapPut(@, ci, p) ELSE @,
                         !.faults = IF out.status = "err" THEN @ + 1 ELSE @]
    /\ UNCHANGED regionFrame

NextRegionFault ==
    \/ \E ci \in RegionChunks : RLoad(ci)
    \/ \E ci \in RegionChunks : \E p \in FaultPayloads : RWriteFault(ci, p)
    \/ RRestart

SpecRegionFault == InitRegion /\ [][NextRegionFault]_vars

(***************************************************************************)
(* Region manager (example/src/world.rs, lib/src/traits.rs).  A world is   *)
(* [chunks, regions, disk]; the operations return the world they leave.    *)
(***************************************************************************)
\* A variant of Manager::load that truncates the file it opens.
load_region_truncating(w, region_index) ==
    [w EXCEPT !.disk = MapPut(w.disk, region_index, NewRegionFile),
              !.regions = MapPut(w.regions, region_index, {})]

\* Manager::load: get_region_file creates the file when it does not exist;
\* the Region starts with no unsaved chunk.
load_region(w, region_index) ==
    [w EXCEPT !.disk = IF region_index \in DOMAIN w.disk THEN w.disk
                       ELSE MapPut(w.disk, region_index, NewRegionFile),
              !.regions = MapPut(w.regions, region_index, {})]

\* A variant of get_for_chunk that loads the region whether or not it is
\* loaded already.
get_for_chunk_reloading(w, chunk_index) ==
    load_region(w, get_region_index(chunk_index))

get_for_chunk(w, chunk_index) ==
    LET region_index == get_region_index(chunk_index)
    IN  IF region_index \notin DOMAIN w.regions
        THEN load_region(w, region_index)
        ELSE w

\* A variant of prune_empty that drops no region.
prune_none(w) == w

\* A variant of prune_empty that drops every loaded region.
prune_all(w) == [w EXCEPT !.regions = EmptyMap]

prune_empty(w) ==
    [w EXCEPT !.regions =
        [idx \in {i \in DOMAIN w.regions : w.regions[i] # {}} |-> w.regions[idx]]]

\* A variant of notify_chunk_creation that fetches the region and reports
\* nothing to it.
notify_chunk_creation_unreported(w, chunk_index) == get_for_chunk(w, chunk_index)

notify_chunk_creation(w, chunk_index) ==
    LET w1 == get_for_chunk(w, chunk_index)
        ri == get_region_index(chunk_index)
    IN  [w1 EXCEPT !.regions[ri] = @ \cup {chunk_index}]

(***************************************************************************)
(* Residency controller (example/src/world.rs, impl Chunked for World)     *)
(***************************************************************************)
chunk_loaded(w, index) == index \in DOMAIN w.chunks

\* The encoded length of the chunks the World holds.
WorldPayloadLens == {100}

\* Chunk::new: the colours are drawn at random, so no two generated chunks
\* are alike; n tells the n-th generation of this index from the others.
\* The last component counts the edits made through cell_mut.
generate_chunk(index, n) ==
    {[v |-> <<index[1], index[2], n, 0>>, len |-> l] : l \in WorldPayloadLens}

\* load_chunk: the set of outcomes [status, generated, w].
\*   load_chunk_from_save: get_for_chunk, read_chunk, insert on Ok;
\*   on any Err: ChunkAlreadyLoaded when resident, else insert a generated
\*   chunk and notify the region.
load_chunk(w, index, n) ==
    LET w1 == get_for_chunk(w, index)
        ri == get_region_index(index)
    IN  UNION {
          IF out.status = "ok"
          THEN {[status |-> "ok", generated |-> FALSE,
                 w |-> [w1 EXCEPT !.chunks = MapPut(@, index, out.chunk),
                                  !.regions[ri] = out.unsaved]]}
          ELSE IF out.status = "panic"
          THEN {[status |-> "panic", generated |-> FALSE, w |-> w1]}
          ELSE IF chunk_loaded(w1, index)
          THEN {[status |-> "already_loaded", generated |-> FALSE, w |-> w1]}
          ELSE {[status |-> "ok", generated |-> TRUE,
                 w |-> notify_chunk_creation(
                          [w1 EXCEPT !.chunks = MapPut(@, index, c)], index)]
                : c \in generate_chunk(index, n)}
          : out \in read_chunk(w1.disk[ri], w1.regions[ri], index)}

\* A variant of unload_chunk that drops the chunk without writing it.
unload_chunk_without_write(w, index) ==
    IF index \notin DOMAIN w.chunks
    THEN [status |-> "no_chunk_in_world", w |-> w]
    ELSE LET w1 == get_for_chunk([w EXCEPT !.chunks = MapDel(@, index)], index)
             ri == get_region_index(index)
         IN  [status |-> "ok",
              w      |-> [w1 EXCEPT !.regions[ri] = @ \ {index}]]

\* A variant of unload_chunk that writes the chunk and leaves it in the
\* residency map.
unload_chunk_keeping_resident(w, index) ==
    IF ~chunk_loaded(w, index)
    THEN [status |-> "no_chunk_in_world", w |-> w]
    ELSE LET chunk == w.chunks[index]
             w1    == get_for_chunk(w, index)
             ri    == get_region_index(index)
             out   == write_chunk(w1.disk[ri], w1.regions[ri], chunk, index)
         IN  [status |-> out.status,
              w      |-> [w1 EXCEPT !.disk[ri] = out.file,
                                    !.regions[ri] = out.unsaved]]

\* unload_chunk: [status, w].  unload_chunk_internal removes the chunk from
\* the residency map before the region is asked to write it.
unload_chunk(w, index) ==
    IF ~chunk_loaded(w, index)
    THEN [status |-> "no_chunk_in_world", w |-> w]
    ELSE LET chunk == w.chunks[index]
             w1    == get_for_chunk([w EXCEPT !.chunks = MapDel(@, index)], index)
             ri    == get_region_index(index)
             out   == write_chunk(w1.disk[ri], w1.regions[ri], chunk, index)
         IN  [status |-> out.status,
              w      |-> [w1 EXCEPT !.disk[ri] = out.file,
                                    !.regions[ri] = out.unsaved]]

\* The ways load_chunk meets a failing call of the I/O layer or of the codec:
\* [status, generated, w].  get_region_file and read_bytes unwrap, so a file
\* that cannot be opened, sought or read is a panic; an Err of
\* decompress_data or deserialize comes back from load_chunk_from_save and is
\* answered like any other Err, by generating the chunk.
load_chunk_failures(w, index, n) ==
    LET w1 == get_for_chunk(w, index)
        ri == get_region_index(index)
        os == read_chunk_offset(w1.disk[ri], normalize_chunk_index(index))
    IN  {[status |-> "panic", generated |-> FALSE, w |-> w],
         [status |-> "panic", generated |-> FALSE, w |-> w1]} \cup
        (IF os.some /\ index \notin w1.regions[ri] /\ ~chunk_loaded(w1, index)
         THEN {[status |-> "ok", generated |-> TRUE,
                w |-> notify_chunk_creation(
                         [w1 EXCEPT !.chunks = MapPut(@, index, c)], index)]
               : c \in generate_chunk(index, n)}
         ELSE {})

\* A variant of unload_chunk_failures in which the failed write empties the
\* region file.
unload_chunk_failures_truncating(w, index) ==
    IF ~chunk_loaded(w, index) THEN {}
    ELSE LET w1 == get_for_chunk([w EXCEPT !.chunks = MapDel(@, index)], index)
             ri == get_region_index(index)
         IN  {[status |-> "err", w |-> [w1 EXCEPT !.disk[ri] = NewRegionFile]]}

\* The ways unload_chunk returns the Err of a failing write_chunk: [status, w].
\* The chunk has left the residency map by then.
unload_chunk_failures(w, index) ==
    IF ~chunk_loaded(w, index) THEN {}
    ELSE LET chunk == w.chunks[index]
             w1    == get_for_chunk([w EXCEPT !.chunks = MapDel(@, index)], index)
             ri    == get_region_index(index)
         IN  {[status |-> out.status,
               w      |-> [w1 EXCEPT !.disk[ri] = out.file,
                                     !.regions[ri] = out.unsaved]]
              : out \in write_chunk_failures(w1.disk[ri], w1.regions[ri], chunk, index)}

\* A variant of the closure `quadrant` whose inner loop stops at i = 0 and
\* so walks the horizontal axis only.
quadrant_axis_only(center, dx, dy) ==
    {<<center[1] + dr * dx, center[2]>> : dr \in 1..UPDATE_RADIUS}

\* The closure `quadrant` of update_chunks: for dr in 1..=R, i in 0..=dr.
quadrant(center, dx, dy) ==
    UNION {{<<center[1] + (dr - i) * dx, center[2] + i * dy>> : i \in 0..dr} :
            dr \in 1..UPDATE_RADIUS}

\* The set `relevant` of update_chunks.
relevant(obs) ==
    LET center == from_world_pos(obs)
    IN  {center} \cup quadrant(center, -1, 1) \cup quadrant(center, 1, 1)
                 \cup quadrant(center, -1, -1) \cup quadrant(center, 1, -1)

\* The load loop of update_chunks has run to its end: every relevant chunk
\* that was missing has been loaded.  A variant that lets the second loop
\* start at once comes first.
loads_skipped(w, rel) == TRUE

loads_complete(w, rel) == \A idx \in rel : chunk_loaded(w, idx)

\* The test of the unload loop.  A variant that forgets the window first.
must_unload_any(w, rel, idx) == chunk_loaded(w, idx)

must_unload(w, rel, idx) == idx \notin rel /\ chunk_loaded(w, idx)

(***************************************************************************)
(* Spec: one World over one save directory.                                *)
(*   pc       "idle" | "updating" | "saving" | "saved" | "panicked"        *)
(*   call     what the running (or last finished) call did                 *)
(*   saved    the residency map and observer at the moment save() began    *)
(*   genCount how many times Chunk::new ran for each index                 *)
(***************************************************************************)
NoCall ==
    [op |-> "none", done |-> FALSE, quiet |-> FALSE, afterSave |-> FALSE,
     loads |-> {}, unloads |-> {}, gens |-> {}, before |-> <<>>]

NoSaved == [valid |-> FALSE, chunks |-> EmptyMap, observer |-> <<0, 0>>]

\* The positions the observer is put at: two in chunk (0,0), one in (-1,-1).
ObserverPositions == {<<0, 0>>, <<3, 0>>, <<-1, -1>>}

\* The directions try_step is called with.
EditDirs == {<<1, 0>>}

TheWorld == [chunks |-> chunks, regions |-> regions, disk |-> disk]

WorldBecomes(w) ==
    /\ chunks' = w.chunks
    /\ regions' = w.regions
    /\ disk' = w.disk

GenCountOf(index) == IF index \in DOMAIN genCount THEN genCount[index] ELSE 0

\* The save snapshot is kept until the first update_chunks after it is over.
SavedAfterStep == IF call.op = "update" THEN NoSaved ELSE saved

\* World::new_empty on an empty save directory.
Init ==
    /\ observer = <<0, 0>>
    /\ chunks = EmptyMap
    /\ regions = EmptyMap
    /\ disk = EmptyMap
    /\ pc = "idle"
    /\ genCount = EmptyMap
    /\ call = NoCall
    /\ saved = NoSaved
    /\ dudes = EmptyMap
    /\ input = <<0, 0>>
    /\ output = NoOutput
    /\ rlog = [op |-> "none"]

\* world.observer = p.
SetObserver(p) ==
    /\ pc = "idle"
    /\ p # observer
    /\ observer' = p
    /\ call' = NoCall
    /\ saved' = SavedAfterStep
    /\ UNCHANGED <<chunks, regions, disk, pc, genCount, dudes, input, output, rlog>>

\* try_step, the branch that turns the cell next to the observer into floor.
Edit(dir) ==
    LET new_pos == <<observer[1] + dir[1], observer[2] + dir[2]>>
        idx     == from_world_pos(new_pos)
    IN  /\ pc = "idle"
        /\ idx \in DOMAIN chunks
        /\ chunks[idx].v[4] = 0
        /\ chunks' = [chunks EXCEPT ![idx].v[4] = 1]
        /\ call' = NoCall
        /\ saved' = SavedAfterStep
        /\ UNCHANGED <<observer, regions, disk, pc, genCount, dudes, input, output, rlog>>

\* update_chunks, entry: `relevant` is computed from the observer.
UpdateBegin ==
    /\ pc = "idle"
    /\ pc' = "updating"
    /\ LET quiet == call.op = "update" /\ call.done
       IN  call' = [op        |-> "update",
                    done      |-> FALSE,
                    quiet     |-> quiet,
                    afterSave |-> SavedAfterStep.valid,
                    loads     |-> {},
                    unloads   |-> {},
                    gens      |-> {},
                    before    |-> IF quiet THEN <<chunks, regions, disk>> ELSE <<>>]
    /\ saved' = SavedAfterStep
    /\ UNCHANGED <<observer, chunks, regions, disk, genCount, dudes, input, output, rlog>>

\* update_chunks, one turn of the load loop (the HashSet is iterated in an
\* order the program does not fix).
UpdateLoad ==
    /\ pc = "updating"
    /\ \E idx \in relevant(observer) :
          /\ ~chunk_loaded(TheWorld, idx)
          /\ GenCountOf(idx) < MaxGen
          /\ \E out \in load_chunk(TheWorld, idx, GenCountOf(idx) + 1) :
                /\ WorldBecomes(out.w)
                /\ pc' = IF out.status = "ok" THEN "updating"
                         ELSE IF out.status = "panic" THEN "panicked"
                         ELSE "idle"
                /\ genCount' = IF out.generated
                               THEN MapPut(genCount, idx, GenCountOf(idx) + 1)
                               ELSE genCount
                /\ call' = [call EXCEPT
                              !.loads = IF out.status = "ok" THEN @ \cup {idx} ELSE @,
                              !.gens  = IF out.generated THEN @ \cup {idx} ELSE @]
    /\ UNCHANGED <<observer, saved, dudes, input, output, rlog>>

\* update_chunks, one turn of the unload loop; the loop visits each index of
\* chunk_indices() once.
UpdateUnload ==
    /\ pc = "updating"
    /\ loads_complete(TheWorld, relevant(observer))
    /\ \E idx \in DOMAIN chunks \ call.unloads :
          /\ must_unload(TheWorld, relevant(observer), idx)
          /\ LET out == unload_chunk(TheWorld, idx)
             IN  /\ WorldBecomes(out.w)
                 /\ pc' = IF out.status = "ok" THEN "updating"
                          ELSE IF out.status = "panic" THEN "panicked"
                          ELSE "idle"
                 /\ call' = [call EXCEPT !.unloads = @ \cup {idx}]
    /\ UNCHANGED <<observer, genCount, saved, dudes, input, output, rlog>>

\* update_chunks, exit: prune_empty and Ok(()).
UpdateEnd ==
    /\ pc = "updating"
    /\ loads_complete(TheWorld, relevant(observer))
    /\ \A idx \in DOMAIN chunks \ call.unloads :
          ~must_unload(TheWorld, relevant(observer), idx)
    /\ WorldBecomes(prune_empty(TheWorld))
    /\ pc' = "idle"
    /\ call' = [call EXCEPT !.done = TRUE]
    /\ UNCHANGED <<observer, genCount, saved, dudes, input, output, rlog>>

\* save, entry: the indices of the resident chunks are collected.
SaveBegin ==
    /\ pc = "idle"
    /\ pc' = "saving"
    /\ saved' = [valid |-> TRUE, chunks |-> chunks, observer |-> observer]
    /\ call' = [NoCall EXCEPT !.op = "save"]
    /\ UNCHANGED <<observer, chunks, regions, disk, genCount, dudes, input, output, rlog>>

\* save, one turn of the loop.
SaveUnload ==
    /\ pc = "saving"
    /\ \E idx \in DOMAIN chunks :
          LET out == unload_chunk(TheWorld, idx)
          IN  /\ WorldBecomes(out.w)
              /\ pc' = IF out.status = "ok" THEN "saving"
                       ELSE IF out.status = "panic" THEN "panicked"
                       ELSE "saved"
              /\ call' = [call EXCEPT !.unloads = @ \cup {idx}]
    /\ UNCHANGED <<observer, genCount, saved, dudes, input, output, rlog>>

\* save, exit: Ok(()); the World is consumed.
SaveEnd ==
    /\ pc = "saving"
    /\ DOMAIN chunks = {}
    /\ pc' = "saved"
    /\ call' = [call EXCEPT !.done = TRUE]
    /\ UNCHANGED <<observer, chunks, regions, disk, genCount, saved, dudes, input, output, rlog>>

\* World::new_empty over the save directory the last World left.
NewWorld ==
    /\ pc = "saved"
    /\ call.done
    /\ observer' = <<0, 0>>
    /\ chunks' = EmptyMap
    /\ regions' = EmptyMap
    /\ pc' = "idle"
    /\ call' = NoCall
    /\ UNCHANGED <<disk, genCount, saved, dudes, input, output, rlog>>

Next ==
    \/ \E p \in ObserverPositions : SetObserver(p)
    \/ \E dir \in EditDirs : Edit(dir)
    \/ UpdateBegin
    \/ UpdateLoad
    \/ UpdateUnload
    \/ UpdateEnd
    \/ SaveBegin
    \/ SaveUnload
    \/ SaveEnd
    \/ NewWorld

Spec == Init /\ [][Next]_vars

(***************************************************************************)
(* SpecFault: the World of Spec without edits, where at most MaxFaults     *)
(* calls of the I/O layer or of the codec fail, and where load_chunk may   *)
(* be called for a resident chunk.  rlog tells what the last such step     *)
(* was, for which chunk, and how the top-level call ended:                 *)
(*   "returned_err" the call returned Err to its caller                    *)
(*   "panicked"     the process panicked                                   *)
(*   "went_on"      the call went on as if nothing had failed              *)
(* A call that returned Err or panicked ends the behaviour.                *)
(***************************************************************************)
NoFault == [op |-> "none", ci |-> <<0, 0>>, ended |-> "none", faults |-> 0]

InitFault ==
    /\ observer = <<0, 0>>
    /\ chunks = EmptyMap
    /\ regions = EmptyMap
    /\ disk = EmptyMap
    /\ pc = "idle"
    /\ genCount = EmptyMap
    /\ call = NoCall
    /\ saved = NoSaved
    /\ dudes = EmptyMap
    /\ input = <<0, 0>>
    /\ output = NoOutput
    /\ rlog = NoFault

\* The positions the observer is put at: one in chunk (0,0), one in (-1,-1).
FaultObserverPositions == {<<0, 0>>, <<-1, -1>>}

HowEnded(status) ==
    IF status = "panic" THEN "panicked"
    ELSE IF status = "ok" THEN "went_on"
    ELSE "returned_err"

\* update_chunks, a turn of the load loop in which a call fails.
UpdateLoadFault ==
    /\ pc = "updating"
    /\ rlog.faults < MaxFaults
    /\ \E idx \in relevant(observer) :
          /\ ~chunk_loaded(TheWorld, idx)
          /\ GenCountOf(idx) < MaxGen
          /\ \E out \in load_chunk_failures(TheWorld, idx, GenCountOf(idx) + 1) :
                /\ WorldBecomes(out.w)
                /\ pc' = IF out.status = "ok" THEN "updating"
                         ELSE IF out.status = "panic" THEN "panicked"
                         ELSE "failed"
                /\ genCount' = IF out.generated
                               THEN MapPut(genCount, idx, GenCountOf(idx) + 1)
                               ELSE genCount
                /\ call' = [call EXCEPT
                              !.loads = IF out.status = "ok" THEN @ \cup {idx} ELSE @,
                              !.gens  = IF out.generated THEN @ \cup {idx} ELSE @]
                /\ rlog' = [op |-> "load_fault", ci |-> idx,
                            ended |-> HowEnded(out.status), faults |-> rlog.faults + 1]
    /\ UNCHANGED <<observer, saved, dudes, input, output>>

\* update_chunks, a turn of the unload loop in which write_chunk returns Err:
\* `?` returns it.
UpdateUnloadFault ==
    /\ pc = "updating"
    /\ rlog.faults < MaxFaults
    /\ loads_complete(TheWorld, relevant(observer))
    /\ \E idx \in DOMAIN chunks \ call.unloads :
          /\ must_unload(TheWorld, relevant(observer), idx)
          /\ \E out \in unload_chunk_failures(TheWorld, idx) :
                /\ WorldBecomes(out.w)
                /\ pc' = "failed"
                /\ rlog' = [op |-> "unload_fault", ci |-> idx,
                            ended |-> HowEnded(out.status), faults |-> rlog.faults + 1]
    /\ UNCHANGED <<observer, genCount, call, saved, dudes, input, output>>

\* save, a turn of the loop in which write_chunk returns Err: `?` returns it
\* and the World is dropped.
SaveUnloadFault ==
    /\ pc = "saving"
    /\ rlog.faults < MaxFaults
    /\ \E idx \in DOMAIN chunks :
          \E out \in unload_chunk_failures(TheWorld, idx) :
              /\ WorldBecomes(out.w)
              /\ pc' = "save_failed"
              /\ rlog' = [op |-> "save_fault", ci |-> idx,
                          ended |-> HowEnded(out.status), faults |-> rlog.faults + 1]
    /\ UNCHANGED <<observer, genCount, call, saved, dudes, input, output>>

\* load_chunk called for a chunk that is resident.
LoadResident ==
    /\ pc = "idle"
    /\ \E idx \in DOMAIN chunks :
          \E out \in load_chunk(TheWorld, idx, GenCountOf(idx) + 1) :
              /\ WorldBecomes(out.w)
              /\ pc' = IF out.status = "panic" THEN "panicked" ELSE "failed"
              /\ rlog' = [op |-> "load_resident", ci |-> idx,
                          ended |-> IF out.status = "already_loaded"
                                    THEN "returned_already_loaded"
                                    ELSE HowEnded(out.status),
                          faults |-> rlog.faults]
    /\ UNCHANGED <<observer, genCount, call, saved, dudes, input, output>>

NextFault ==
    \/ \E p \in FaultObserverPositions : SetObserver(p)
    \/ UpdateBegin
    \/ UpdateLoad
    \/ UpdateUnload
    \/ UpdateEnd
    \/ SaveBegin
    \/ SaveUnload
    \/ SaveEnd
    \/ NewWorld
    \/ UpdateLoadFault
    \/ UpdateUnloadFault
    \/ SaveUnloadFault
    \/ LoadResident

SpecFault == InitFault /\ [][NextFault]_vars

(***************************************************************************)
(* Auxiliary objects (example/src/world.rs: place_dude,                    *)
(* remove_dudes_in_chunk, unload_chunk_internal, load_chunk_from_save).    *)
(* The record written for a chunk is a SerialChunk: the chunk and the      *)
(* dudes that stood on its cells.                                          *)
(***************************************************************************)
MapRestrict(f, S) == [k \in S |-> f[k]]

MapOverlay(f, g) ==
    [k \in DOMAIN f \cup DOMAIN g |-> IF k \in DOMAIN g THEN g[k] ELSE f[k]]

\* A variant of Chunk::world_position that leaves out the chunk's origin.
world_position_local(index, pos) == pos

\* Chunk::world_position.
world_position(index, pos) ==
    <<pos[1] + index[1] * CHUNK_WIDTH, pos[2] + index[2] * CHUNK_WIDTH>>

\* The positions Chunk::iter yields, one per cell (Cells::next).
Cells ==
    {<<TruncRem(i, CHUNK_WIDTH), TruncDiv(i, CHUNK_WIDTH)>> :
        i \in 0..(CHUNK_WIDTH * CHUNK_WIDTH - 1)}

\* Dude::new(pos); the colour is drawn at random.
Dude(pos, color) == [pos |-> pos, color |-> color]

\* place_dude.
place_dude(ds, pos, color) == MapOverlay(ds, [k \in {pos} |-> Dude(pos, color)])

\* remove_dudes_in_chunk: [removed, rest].
remove_dudes_in_chunk(ds, chunk_index) ==
    LET hit == {world_position(chunk_index, c) : c \in Cells} \cap DOMAIN ds
    IN  [removed |-> MapRestrict(ds, hit),
         rest    |-> MapRestrict(ds, DOMAIN ds \ hit)]

\* SerialChunk { chunk, dudes }; every dude adds to the encoded length.
SerialChunk(chunk, ds) ==
    [v |-> <<chunk, ds>>, len |-> chunk.len + Cardinality(DOMAIN ds)]

\* A variant of unload_chunk_internal that asks the manager for the region
\* before it looks for the chunk.
unload_chunk_internal_opening_region(w, ds, index) ==
    IF ~chunk_loaded(w, index)
    THEN [status |-> "no_chunk_in_world", w |-> get_for_chunk(w, index),
          dudes |-> ds, serial |-> ZeroPayload]
    ELSE LET r == remove_dudes_in_chunk(ds, index)
         IN  [status |-> "ok",
              w      |-> [w EXCEPT !.chunks = MapDel(@, index)],
              dudes  |-> r.rest,
              serial |-> SerialChunk(w.chunks[index], r.removed)]

\* unload_chunk_internal: [status, w, dudes, serial].
unload_chunk_internal(w, ds, index) ==
    IF ~chunk_loaded(w, index)
    THEN [status |-> "no_chunk_in_world", w |-> w, dudes |-> ds,
          serial |-> ZeroPayload]
    ELSE LET r == remove_dudes_in_chunk(ds, index)
         IN  [status |-> "ok",
              w      |-> [w EXCEPT !.chunks = MapDel(@, index)],
              dudes  |-> r.rest,
              serial |-> SerialChunk(w.chunks[index], r.removed)]

\* World::unload_chunk with the object map: [status, w, dudes, serial].
unload_chunk_serial(w, ds, index) ==
    LET r == unload_chunk_internal(w, ds, index)
    IN  IF r.status # "ok" THEN r
        ELSE LET w1  == get_for_chunk(r.w, index)
                 ri  == get_region_index(index)
                 out == write_chunk(w1.disk[ri], w1.regions[ri], r.serial, index)
             IN  [r EXCEPT !.status = out.status,
                           !.w = [w1 EXCEPT !.disk[ri] = out.file,
                                            !.regions[ri] = out.unsaved]]

\* load_chunk_from_save: the set of outcomes [status, w, dudes].
load_chunk_from_save(w, ds, index) ==
    LET w1 == get_for_chunk(w, index)
        ri == get_region_index(index)
    IN  {IF out.status = "ok"
         THEN [status |-> "ok",
               w      |-> [w1 EXCEPT !.chunks = MapPut(@, index, out.chunk.v[1]),
                                     !.regions[ri] = out.unsaved],
               dudes  |-> MapOverlay(ds, out.chunk.v[2])]
         ELSE [status |-> out.status, w |-> w1, dudes |-> ds]
         : out \in read_chunk(w1.disk[ri], w1.regions[ri], index)}

\* World::load_chunk with the object map: [status, generated, w, dudes].
load_chunk_serial(w, ds, index, n) ==
    UNION {
      IF r.status \in {"ok", "panic"}
      THEN {[status |-> r.status, generated |-> FALSE, w |-> r.w, dudes |-> r.dudes]}
      ELSE IF chunk_loaded(r.w, index)
      THEN {[status |-> "already_loaded", generated |-> FALSE, w |-> r.w,
             dudes |-> r.dudes]}
      ELSE {[status |-> "ok", generated |-> TRUE,
             w |-> notify_chunk_creation(
                      [r.w EXCEPT !.chunks = MapPut(@, index, c)], index),
             dudes |-> r.dudes]
            : c \in generate_chunk(index, n)}
      : r \in load_chunk_from_save(w, ds, index)}

(***************************************************************************)
(* SpecDudes: a World whose chunks are loaded and unloaded one at a time   *)
(* while dudes are placed inside and outside their footprints.             *)
(*   call  the last operation: its chunk, and the object map and the chunk *)
(*         payload as they were before the last unload                     *)
(***************************************************************************)
\* The chunks loaded and unloaded.
DudeChunks == {<<0, 0>>, <<-1, 0>>}

\* The last cell of chunk (0,0), a cell of chunk (-1,0), a cell of chunk (1,0).
DudePositions == {<<31, 31>>, <<-1, 0>>, <<32, 0>>}

DudeColors == {0, 1}

NoDudeCall ==
    [op |-> "none", ci |-> <<0, 0>>, dudesBefore |-> EmptyMap,
     chunkBefore |-> ZeroPayload, serial |-> ZeroPayload, reload |-> FALSE,
     status |-> "none"]

InitDudes ==
    /\ observer = <<0, 0>>
    /\ chunks = EmptyMap
    /\ regions = EmptyMap
    /\ disk = EmptyMap
    /\ pc = "dudes"
    /\ genCount = EmptyMap
    /\ call = NoDudeCall
    /\ saved = [valid |-> FALSE]
    /\ dudes = EmptyMap
    /\ input = <<0, 0>>
    /\ output = NoOutput
    /\ rlog = [op |-> "none"]

dudesFrame == <<observer, pc, genCount, saved, input, output, rlog>>

\* world.place_dude(pos).
DPlace(pos, color) ==
    /\ pc = "dudes"
    /\ dudes' = place_dude(dudes, pos, color)
    /\ dudes' # dudes
    /\ call' = [NoDudeCall EXCEPT !.op = "place"]
    /\ UNCHANGED <<chunks, regions, disk, dudesFrame>>

\* world.load_chunk(ci) for a chunk that is not resident.
DLoad(ci) ==
    /\ pc = "dudes"
    /\ ~chunk_loaded(TheWorld, ci)
    /\ \E out \in load_chunk_serial(TheWorld, dudes, ci, 0) :
          /\ out.status = "ok"
          /\ WorldBecomes(out.w)
          /\ dudes' = out.dudes
          /\ call' = [call EXCEPT !.op = "load", !.ci = ci,
                                  !.reload = (call.op = "unload" /\ call.ci = ci),
                                  !.status = out.status]
    /\ UNCHANGED dudesFrame

\* world.unload_chunk(ci) for a resident chunk.
DUnload(ci) ==
    /\ pc = "dudes"
    /\ chunk_loaded(TheWorld, ci)
    /\ LET out == unload_chunk_serial(TheWorld, dudes, ci)
       IN  /\ out.status = "ok"
           /\ WorldBecomes(out.w)
           /\ dudes' = out.dudes
           /\ call' = [op |-> "unload", ci |-> ci, dudesBefore |-> dudes,
                       chunkBefore |-> chunks[ci], serial |-> out.serial,
                       reload |-> FALSE, status |-> out.status]
    /\ UNCHANGED dudesFrame

\* world.unload_chunk(ci) for a chunk that is not resident.
DUnloadAbsent(ci) ==
    /\ pc = "dudes"
    /\ ~chunk_loaded(TheWorld, ci)
    /\ LET out == unload_chunk_serial(TheWorld, dudes, ci)
       IN  /\ WorldBecomes(out.w)
           /\ dudes' = out.dudes
           /\ call' = [NoDudeCall EXCEPT !.op = "unload_absent", !.ci = ci,
                                         !.status = out.status]
    /\ UNCHANGED dudesFrame

\* regions.prune_empty(), as update_chunks ends with.
DPrune ==
    /\ pc = "dudes"
    /\ WorldBecomes(prune_empty(TheWorld))
    /\ regions' # regions
    /\ call' = [NoDudeCall EXCEPT !.op = "prune"]
    /\ UNCHANGED <<dudes, dudesFrame>>

NextDudes ==
    \/ \E pos \in DudePositions, color \in DudeColors : DPlace(pos, color)
    \/ \E ci \in DudeChunks : DLoad(ci)
    \/ \E ci \in DudeChunks : DUnload(ci)
    \/ \E ci \in DudeChunks : DUnloadAbsent(ci)
    \/ DPrune

SpecDudes == InitDudes /\ [][NextDudes]_vars

(***************************************************************************)
(* The codec at the level of bytes (managed_region.rs: serialize_u32,      *)
(* deserialize_u32, compress_data, decompress_data).  A byte vector is a   *)
(* sequence of numbers below U8_RANGE.  `little` tells whether the target  *)
(* of the build is little-endian, which from_be and to_be depend on.       *)
(***************************************************************************)
ByteOf(val, i) == (val \div (U8_RANGE ^ i)) % U8_RANGE

\* u32::swap_bytes.
swap_bytes(val) ==
    ByteOf(val, 0) * U8_RANGE ^ 3 + ByteOf(val, 1) * U8_RANGE ^ 2
        + ByteOf(val, 2) * U8_RANGE + ByteOf(val, 3)

\* u32::from_be and u32::to_be: the same conversion, a swap on a
\* little-endian target and nothing on a big-endian one.
from_be(val, little) == IF little THEN swap_bytes(val) ELSE val

to_be(val, little) == IF little THEN swap_bytes(val) ELSE val

\* A variant of serialize_u32 that leaves out from_be.
serialize_u32_unconverted(val, little) ==
    <<ByteOf(val, 3), ByteOf(val, 2), ByteOf(val, 1), ByteOf(val, 0)>>

serialize_u32(val, little) ==
    LET bits == from_be(val, little)
    IN  <<ByteOf(bits, 3), ByteOf(bits, 2), ByteOf(bits, 1), ByteOf(bits, 0)>>

deserialize_u32(buf, little) ==
    to_be(buf[1] * U8_RANGE ^ 3 + buf[2] * U8_RANGE ^ 2 + buf[3] * U8_RANGE + buf[4],
          little)

RECURSIVE SumBytes(_)
SumBytes(d) == IF d = <<>> THEN 0 ELSE Head(d) + SumBytes(Tail(d))

\* ZlibEncoder write + finish: a stream that carries the data, lets the
\* decoder find its end and ends with a checksum of the data.
zlib_encode(d) == <<Len(d)>> \o d \o <<SumBytes(d) % U8_RANGE>>

\* ZlibDecoder read_to_end on exactly the bytes s: [status, data].
zlib_decode(s) ==
    IF Len(s) >= 2 /\ s[1] = Len(s) - 2
       /\ s[Len(s)] = SumBytes(SubSeq(s, 2, Len(s) - 1)) % U8_RANGE
    THEN [status |-> "ok", data |-> SubSeq(s, 2, Len(s) - 1)]
    ELSE [status |-> "err", data |-> <<>>]

\* compress_data: the header serialize_u32(buf.len()) and the stream.
compress_data(bytes, little) ==
    LET buf == zlib_encode(bytes)
    IN  serialize_u32(Len(buf), little) \o buf

\* decompress_data: [status, data].  split_at(4) and the slice
\* [4 .. 4 + data_length] panic when the vector is too short.
decompress_data(bytes, little) ==
    IF Len(bytes) < 4 THEN [status |-> "panic", data |-> <<>>]
    ELSE LET data_length == deserialize_u32(SubSeq(bytes, 1, 4), little)
         IN  IF Len(bytes) < 4 + data_length
             THEN [status |-> "panic", data |-> <<>>]
             ELSE zlib_decode(SubSeq(bytes, 5, 4 + data_length))

(***************************************************************************)
(* SpecCodec: compress_data, zero padding and decompress_data applied to   *)
(* short byte vectors, on either kind of target.                           *)
(***************************************************************************)
\* The longest byte vector compressed.
MaxDataLen == 3

\* The most zero bytes added behind the compressed vector.
MaxPad == 2

CodecBytes == {0, 1, U8_RANGE - 1}

CodecData == UNION {[1..n -> CodecBytes] : n \in 0..MaxDataLen}

InitCodec ==
    /\ observer = <<0, 0>>
    /\ chunks = EmptyMap
    /\ regions = EmptyMap
    /\ disk = EmptyMap
    /\ pc = "codec"
    /\ genCount = EmptyMap
    /\ call = [op |-> "none"]
    /\ saved = [valid |-> FALSE]
    /\ dudes = EmptyMap
    /\ rlog = [op |-> "none"]
    /\ input \in [data : CodecData, pad : 0..MaxPad, little : BOOLEAN]
    /\ output = NoOutput

\* compress_data, input.pad zero bytes pushed behind, decompress_data.
ComputeCodec ==
    /\ pc = "codec"
    /\ output = NoOutput
    /\ LET compressed == compress_data(input.data, input.little)
           padded     == compressed \o [i \in 1..input.pad |-> 0]
       IN  output' = [done       |-> TRUE,
                      compressed |-> compressed,
                      result     |-> decompress_data(padded, input.little)]
    /\ UNCHANGED <<worldVars, input, rlog>>

NextCodec == ComputeCodec

SpecCodec == InitCodec /\ [][NextCodec]_vars

(***************************************************************************)
(* SpecPad: write_chunk's padding and append_chunk's sector count applied  *)
(* to encoded lengths around the multiples of SECTOR_SIZE.                 *)
(***************************************************************************)
\* The lengths reach from 0 to MaxSectors sectors and PadSpread bytes more.
MaxSectors == 2

PadSpread == 20

PadLens ==
    {n \in 0..(MaxSectors * SECTOR_SIZE + PadSpread) :
        \E k \in 0..MaxSectors : Abs(n - k * SECTOR_SIZE) <= PadSpread}

InitPad ==
    /\ observer = <<0, 0>>
    /\ chunks = EmptyMap
    /\ regions = EmptyMap
    /\ disk = EmptyMap
    /\ pc = "pad"
    /\ genCount = EmptyMap
    /\ call = [op |-> "none"]
    /\ saved = [valid |-> FALSE]
    /\ dudes = EmptyMap
    /\ rlog = [op |-> "none"]
    /\ input \in PadLens
    /\ output = NoOutput

\* pad_byte_vec(&mut compressed, SECTOR_SIZE) on a vector of input bytes,
\* then append_chunk of the padded vector to a new region file.
ComputePad ==
    /\ pc = "pad"
    /\ output = NoOutput
    /\ LET padded == pad_byte_vec(input, SECTOR_SIZE)
           run    == [p |-> [v |-> <<input>>, len |-> input], from |-> 0, len |-> padded]
       IN  output' = [done     |-> TRUE,
                      padded   |-> padded,
                      appended |-> append_chunk(NewRegionFile, run, <<0, 0>>)]
    /\ UNCHANGED <<worldVars, input, rlog>>

NextPad == ComputePad

SpecPad == InitPad /\ [][NextPad]_vars

(***************************************************************************)
(* SpecIndex: the index mappings applied to every chunk index of a square  *)
(* around the origin that spans negative and positive region boundaries.   *)
(***************************************************************************)
Coords == (-MaxCoord)..MaxCoord

WorldParked ==
    /\ observer = <<0, 0>>
    /\ chunks = EmptyMap
    /\ regions = EmptyMap
    /\ disk = EmptyMap
    /\ pc = "parked"
    /\ genCount = EmptyMap
    /\ call = [op |-> "none"]
    /\ saved = [valid |-> FALSE]
    /\ dudes = EmptyMap

InitIndex ==
    /\ WorldParked
    /\ rlog = [op |-> "none"]
    /\ input \in Coords \X Coords
    /\ output = NoOutput

ComputeIndex ==
    /\ output = NoOutput
    /\ output' = [done   |-> TRUE,
                  region |-> get_region_index(input),
                  local  |-> normalize_chunk_index(input),
                  slot   |-> get_chunk_offset(normalize_chunk_index(input))]
    /\ UNCHANGED <<worldVars, input, rlog>>

NextIndex == ComputeIndex

SpecIndex == InitIndex /\ [][NextIndex]_vars

\* Floored division and modulo, as mathematics defines them (TLA+'s \div and
\* % floor for a positive divisor).
FloorDiv(a, b) == a \div b

FloorMod(a, b) == a % b

(***************************************************************************)
(* C1: for every chunk index, of either sign and including exact negative  *)
(* multiples of REGION_WIDTH, get_region_index is the floored division of  *)
(* each coordinate by REGION_WIDTH.                                        *)
(***************************************************************************)
C1_RegionIndexIsFlooredDivision ==
    output.done =>
        output.region = <<FloorDiv(input[1], REGION_WIDTH),
                          FloorDiv(input[2], REGION_WIDTH)>>

(***************************************************************************)
(* C2: region index times REGION_WIDTH plus the region-local index gives   *)
(* back the chunk index, on each axis.                                     *)
(***************************************************************************)
C2_RegionAndLocalReconstructChunk ==
    output.done =>
        /\ output.region[1] * REGION_WIDTH + output.local[1] = input[1]
        /\ output.region[2] * REGION_WIDTH + output.local[2] = input[2]

(***************************************************************************)
(* C3: normalize_chunk_index returns, on each axis, the floored modulo of  *)
(* the coordinate by REGION_WIDTH, a value in 0..REGION_WIDTH-1.           *)
(***************************************************************************)
C3_LocalIndexIsFlooredModulo ==
    output.done =>
        /\ output.local = <<FloorMod(input[1], REGION_WIDTH),
                            FloorMod(input[2], REGION_WIDTH)>>
        /\ output.local[1] \in 0..(REGION_WIDTH - 1)
        /\ output.local[2] \in 0..(REGION_WIDTH - 1)

\* Coordinate -1 is mapped to REGION_WIDTH-1 on both axes.
C3_Witness ==
    /\ output.done
    /\ input = <<-1, -1>>
    /\ output.local = <<REGION_WIDTH - 1, REGION_WIDTH - 1>>

(***************************************************************************)
(* C7: after write_chunk(ci, p) succeeded, a read_chunk(ci) that returns a *)
(* payload, with no write to ci in between, returns p - whether the write  *)
(* appended or updated in place, and whatever was written to other chunks  *)
(* of the region in between.                                               *)
(***************************************************************************)
C7_ReadReturnsLastWrittenPayload ==
    (rlog.op = "read" /\ rlog.ci \in DOMAIN rlog.written)
        => rlog.chunk = rlog.written[rlog.ci]

\* Every slot of every region file, as the pair read_chunk_offset reads.
SlotsOf(f) ==
    {read_table_bytes(f, get_chunk_offset(<<lx, ly>>)) :
        lx \in 0..(REGION_WIDTH - 1), ly \in 0..(REGION_WIDTH - 1)}

AllSlots == UNION {SlotsOf(disk[r]) : r \in DOMAIN disk}

LocalOfSlot(o) == <<(o \div 2) % REGION_WIDTH, (o \div 2) \div REGION_WIDTH>>

NonEmptyLocals(f) == {LocalOfSlot(b) : b \in DOMAIN f.tbl}

\* The slot of chunk ci in f, as the pair of bytes stored.
SlotOf(f, ci) == read_table_bytes(f, get_chunk_offset(normalize_chunk_index(ci)))

\* C11: every record a non-empty slot refers to starts at or after the end
\* of the lookup table, a whole number of sectors away from it, and the file
\* length minus the lookup table is a whole number of sectors, so that every
\* append lands on a sector boundary.
C11_RecordsAndFileEndSectorAligned ==
    \A r \in DOMAIN disk :
        /\ (FileLen(disk[r]) - lookup_table_size) % SECTOR_SIZE = 0
        /\ \A li \in NonEmptyLocals(disk[r]) :
              LET os == read_chunk_offset(disk[r], li)
              IN  os.some =>
                    /\ os.offset >= lookup_table_size
                    /\ (os.offset - lookup_table_size) % SECTOR_SIZE = 0

\* A file with records of one and of two sectors, the later ones appended
\* behind the first.
C11_Witness ==
    \E r \in DOMAIN disk :
        /\ FileLen(disk[r]) >= lookup_table_size + 3 * SECTOR_SIZE
        /\ \E li \in NonEmptyLocals(disk[r]) :
              read_chunk_offset(disk[r], li).offset > lookup_table_size
        /\ \E li \in NonEmptyLocals(disk[r]) :
              read_chunk_offset(disk[r], li).size = 2 * SECTOR_SIZE

\* The step is a write_chunk(ci, _) that returned Ok: ci leaves the dirty set.
WroteOk(ci) ==
    /\ pc = "region"
    /\ pc' = "region"
    /\ ci \in regions[R0]
    /\ ci \notin regions'[R0]

\* C12: a write_chunk(ci, p) that finds the slot of ci empty and returns Ok
\* appends: the file grows by exactly the padded length, the record lies at
\* the previous end of file, and the slot becomes (sectors between the
\* lookup table and the previous end of file, sectors of the record).
C12_WriteOnEmptySlotAppends ==
    [][\A ci \in RegionChunks :
          (WroteOk(ci) /\ SlotOf(disk[R0], ci)[2] = 0) =>
              LET f    == disk[R0]
                  g    == disk'[R0]
                  data == encode_chunk(rlog'.written[ci])
              IN  /\ FileLen(g) = FileLen(f) + data.len
                  /\ read_bytes(g, FileLen(f), data.len) = <<data>>
                  /\ read_bytes(g, lookup_table_size, FileLen(f) - lookup_table_size)
                       = f.data
                  /\ SlotOf(g, ci) = <<(FileLen(f) - lookup_table_size) \div SECTOR_SIZE,
                                       data.len \div SECTOR_SIZE>>]_vars

\* A chunk whose two-sector record was appended behind an earlier record and
\* is the last of the file.
C12_Witness ==
    \E ci \in DOMAIN rlog.written :
        LET f  == disk[R0]
            os == read_chunk_offset(f, normalize_chunk_index(ci))
        IN  /\ os.some
            /\ os.offset > lookup_table_size
            /\ os.size = 2 * SECTOR_SIZE
            /\ os.offset + os.size = FileLen(f)
            /\ read_bytes(f, os.offset, os.size) = <<encode_chunk(rlog.written[ci])>>

\* C13: a write_chunk(ci, p) that finds the slot of ci non-empty with at
\* least the padded length reserved updates in place: the record is written
\* at the slot's offset, the file length and the lookup table stay as they
\* are, also when the record needs fewer sectors than are reserved.
C13_WriteOnReservedSlotUpdatesInPlace ==
    [][\A ci \in RegionChunks :
          (WroteOk(ci) /\ SlotOf(disk[R0], ci)[2] # 0) =>
              LET f    == disk[R0]
                  g    == disk'[R0]
                  os   == read_chunk_offset(f, normalize_chunk_index(ci))
                  data == encode_chunk(rlog'.written[ci])
              IN  /\ os.size >= data.len
                  /\ FileLen(g) = FileLen(f)
                  /\ g.tbl = f.tbl
                  /\ read_bytes(g, os.offset, data.len) = <<data>>]_vars

\* A chunk that holds two reserved sectors and was last written with a
\* record of one sector, found at the start of its reservation.
C13_Witness ==
    \E ci \in DOMAIN rlog.written :
        LET f    == disk[R0]
            os   == read_chunk_offset(f, normalize_chunk_index(ci))
            data == encode_chunk(rlog.written[ci])
        IN  /\ os.some
            /\ os.size = 2 * SECTOR_SIZE
            /\ data.len = SECTOR_SIZE
            /\ read_bytes(f, os.offset, data.len) = <<data>>

(***************************************************************************)
(* Claims about the writes write_chunk refuses, checked under SpecRegion   *)
(* on every write the driver can issue in a reachable state.               *)
(***************************************************************************)
\* The writes that can be issued now: a dirty chunk and a payload for it.
IssuableWrites ==
    IF pc = "region"
    THEN {<<ci, p>> \in RegionChunks \X UNION {RegionPayloads(c) : c \in RegionChunks} :
            ci \in regions[R0] /\ p \in RegionPayloads(ci)}
    ELSE {}

\* write_chunk returned an error value and left the file as it was.
RefusedUnchanged(ci, p) ==
    LET out == write_chunk(disk[R0], regions[R0], p, ci)
    IN  /\ out.status \notin {"ok", "panic"}
        /\ out.file = disk[R0]

\* C14: write_chunk on a non-empty slot whose reserved bytes are fewer than
\* the padded length returns an error value (RecordGrewPastAllocation) and
\* leaves the bytes, the length and the slot of the file unchanged.
C14_GrownRecordRefusedWithErrorValue ==
    \A w \in IssuableWrites :
        LET os == read_chunk_offset(disk[R0], normalize_chunk_index(w[1]))
        IN  (os.some /\ os.size < encode_chunk(w[2]).len) => RefusedUnchanged(w[1], w[2])

\* C15: write_chunk on an empty slot returns an error value (RegionFull) and
\* writes nothing when the sector offset of the new record or its sector
\* count exceeds 255; no slot receives a value reduced modulo 256.
C15_FullRegionRefusedWithErrorValue ==
    \A w \in IssuableWrites :
        LET os     == read_chunk_offset(disk[R0], normalize_chunk_index(w[1]))
            offset == (FileLen(disk[R0]) - lookup_table_size) \div SECTOR_SIZE
            count  == encode_chunk(w[2]).len \div SECTOR_SIZE
        IN  (~os.some /\ (offset > 255 \/ count > 255)) => RefusedUnchanged(w[1], w[2])

(***************************************************************************)
(* Claims about failing writes, checked under SpecRegionFault.             *)
(***************************************************************************)
\* The step is a write_chunk call that did not return Ok.
WriteFailed == pc = "region" /\ rlog'.op \in {"err", "panic"}

\* C16: a write_chunk(ci, p) that fails, for whatever reason, leaves the
\* dirty set of the region as it was, ci included; a chunk leaves the dirty
\* set only in a write_chunk of that chunk that returns Ok.
C16_FailedWriteKeepsDirtySet ==
    [][/\ WriteFailed => (regions' = regions /\ rlog'.ci \in regions'[R0])
       /\ \A ci \in RegionChunks :
             (pc = "region" /\ ci \in regions[R0] /\ ci \notin regions'[R0])
                 => (rlog'.op = "ok" /\ rlog'.ci = ci)]_vars

\* A write that returned Err after its record had reached the file: the
\* chunk is dirty, its slot empty, the file longer than its records need.
C16_Witness ==
    /\ pc = "region"
    /\ rlog.op = "err"
    /\ rlog.ci \in regions[R0]
    /\ SlotOf(disk[R0], rlog.ci)[2] = 0
    /\ FileLen(disk[R0]) > lookup_table_size

(***************************************************************************)
(* Claims about the residency controller, checked under Spec.              *)
(***************************************************************************)
\* The diamond of Manhattan radius UPDATE_RADIUS around a chunk index.
Diamond(c) ==
    {<<c[1] + dx, c[2] + dy>> :
        <<dx, dy>> \in {d \in ((-UPDATE_RADIUS)..UPDATE_RADIUS) \X
                               ((-UPDATE_RADIUS)..UPDATE_RADIUS) :
                          Abs(d[1]) + Abs(d[2]) <= UPDATE_RADIUS}}

\* update_chunks has just returned Ok and nothing has happened since.
UpdateReturnedOk == pc = "idle" /\ call.op = "update" /\ call.done

\* C4: after every update_chunks() that returns Ok, the resident chunk
\* indices are exactly the diamond |dx| + |dy| <= UPDATE_RADIUS around the
\* observer's chunk, whatever was resident before.
C4_ResidentSetIsDiamond ==
    UpdateReturnedOk => DOMAIN chunks = Diamond(from_world_pos(observer))

\* A call that both loaded and unloaded chunks, away from the origin chunk.
C4_Witness ==
    /\ UpdateReturnedOk
    /\ call.loads # {}
    /\ call.unloads # {}
    /\ from_world_pos(observer) # <<0, 0>>
    /\ DOMAIN chunks = Diamond(from_world_pos(observer))

\* C5: within one update_chunks() call no load follows an unload: once a
\* chunk has been unloaded, the set of chunks the call loaded stays as it is.
C5_NoLoadAfterUnload ==
    [][(pc = "updating" /\ call.unloads # {}) => call'.loads = call.loads]_vars

\* A call in progress that has loaded and unloaded chunks.
C5_Witness ==
    /\ pc = "updating"
    /\ call.loads # {}
    /\ call.unloads # {}

\* C6: over the lifetime of a save directory the generator runs at most once
\* for any chunk index.
C6_GeneratedAtMostOnce ==
    \A ci \in DOMAIN genCount : genCount[ci] <= 1

\* A chunk generated by an earlier call, unloaded since, and brought back by
\* the last call from its region file.
C6_Witness ==
    /\ UpdateReturnedOk
    /\ ~call.afterSave
    /\ \E ci \in call.loads : ci \notin call.gens /\ GenCountOf(ci) = 1

\* The first update_chunks of a fresh World after save(), run with the
\* observer save() saw, has returned Ok.
ReloadedAfterSave ==
    /\ UpdateReturnedOk
    /\ call.afterSave
    /\ saved.valid
    /\ observer = saved.observer

\* C8: after save(), a fresh world over the same directory that updates with
\* the same observer holds, for every chunk of the window that was resident
\* before save(), an equal payload, and generated none of them.
C8_SaveThenReloadKeepsPayloads ==
    ReloadedAfterSave =>
        \A ci \in relevant(observer) \cap DOMAIN saved.chunks :
            /\ ci \in DOMAIN chunks
            /\ chunks[ci] = saved.chunks[ci]
            /\ ci \notin call.gens

\* The whole window was resident before save(), one of its chunks edited
\* after it had been read back from disk once already.
C8_Witness ==
    /\ ReloadedAfterSave
    /\ from_world_pos(observer) # <<0, 0>>
    /\ relevant(observer) \subseteq DOMAIN saved.chunks
    /\ \E ci \in relevant(observer) :
          saved.chunks[ci].v[4] = 1 /\ chunks[ci] = saved.chunks[ci]

\* C9: an update_chunks() issued right after a successful one, observer
\* unchanged, loads, unloads and generates nothing and leaves the resident
\* chunks, the loaded regions with their dirty sets and every region file
\* as they were.
C9_SecondUpdateIsNoOp ==
    (UpdateReturnedOk /\ call.quiet) =>
        /\ call.loads = {}
        /\ call.unloads = {}
        /\ call.gens = {}
        /\ <<chunks, regions, disk>> = call.before

\* A second call over a populated world with loaded regions.
C9_Witness ==
    /\ UpdateReturnedOk
    /\ call.quiet
    /\ DOMAIN chunks # {}
    /\ DOMAIN regions # {}
    /\ DOMAIN disk # {}

\* save() has just returned Ok.
SaveReturnedOk == pc = "saved" /\ call.op = "save" /\ call.done

\* What a fresh Region reads for chunk ci from the save directory.
OnDisk(ci) ==
    IF get_region_index(ci) \in DOMAIN disk
    THEN {[status |-> out.status, chunk |-> out.chunk] :
            out \in read_chunk(disk[get_region_index(ci)], {}, ci)}
    ELSE {[status |-> "no_chunk", chunk |-> ZeroPayload]}

\* C19: after save() returned Ok the residency map is empty, every chunk
\* that was resident before the call has a non-empty slot in its region file
\* that holds its payload, and the dirty set of every loaded region is empty.
C19_SaveLeavesEverythingOnDisk ==
    SaveReturnedOk =>
        /\ DOMAIN chunks = {}
        /\ \A ci \in DOMAIN saved.chunks :
              /\ get_region_index(ci) \in DOMAIN disk
              /\ SlotOf(disk[get_region_index(ci)], ci)[2] # 0
              /\ OnDisk(ci) = {[status |-> "ok", chunk |-> saved.chunks[ci]]}
        /\ \A r \in DOMAIN regions : regions[r] = {}

\* A save() of a full window in several regions, one chunk of it edited.
C19_Witness ==
    /\ SaveReturnedOk
    /\ DOMAIN saved.chunks = Diamond(from_world_pos(saved.observer))
    /\ Cardinality(DOMAIN regions) >= 2
    /\ \E ci \in DOMAIN saved.chunks : saved.chunks[ci].v[4] = 1

(***************************************************************************)
(* Claims about failures, checked under SpecFault.                         *)
(***************************************************************************)
\* C17: a failure of the I/O layer or of the codec inside load, unload,
\* update_chunks or save never makes the controller panic: the top-level
\* call returns it to its caller as an error value.
C17_ExternalFailureIsReturnedAsError ==
    rlog.op \in {"load_fault", "unload_fault", "save_fault"} =>
        (rlog.ended = "returned_err" /\ pc # "panicked")

\* C18: load_chunk called for a resident chunk returns ChunkAlreadyLoaded
\* and leaves the residency map, the dirty sets and the region files as
\* they were; it does not panic and does not replace the payload.
C18_LoadOfResidentChunkReturnsAlreadyLoaded ==
    [][(pc = "idle" /\ rlog'.op = "load_resident") =>
          /\ rlog'.ended = "returned_already_loaded"
          /\ pc' # "panicked"
          /\ chunks' = chunks
          /\ regions' = regions
          /\ disk' = disk]_vars

InFootprint(ci, pos) ==
    /\ ci[1] * CHUNK_WIDTH <= pos[1] /\ pos[1] < (ci[1] + 1) * CHUNK_WIDTH
    /\ ci[2] * CHUNK_WIDTH <= pos[2] /\ pos[2] < (ci[2] + 1) * CHUNK_WIDTH

\* C21: unloading chunk ci writes a record that holds the chunk's payload
\* and exactly the dudes standing inside ci's footprint, and leaves in the
\* object map exactly the dudes outside it; a load of ci right after the
\* unload brings the object map (and so its size) and the payload back to
\* what they were before the unload.
C21_UnloadMovesFootprintDudesAndLoadRestores ==
    pc = "dudes" =>
      /\ call.op = "unload" =>
           LET before == call.dudesBefore
               inside == {p \in DOMAIN before : InFootprint(call.ci, p)}
           IN  /\ call.serial = SerialChunk(call.chunkBefore,
                                            MapRestrict(before, inside))
               /\ OnDisk(call.ci) = {[status |-> "ok", chunk |-> call.serial]}
               /\ dudes = MapRestrict(before, DOMAIN before \ inside)
               /\ ~chunk_loaded(TheWorld, call.ci)
      /\ (call.op = "load" /\ call.reload) =>
           /\ dudes = call.dudesBefore
           /\ Cardinality(DOMAIN dudes) = Cardinality(DOMAIN call.dudesBefore)
           /\ chunk_loaded(TheWorld, call.ci)
           /\ chunks[call.ci] = call.chunkBefore

\* Chunk (-1,0) was unloaded and loaded back while one dude stood on one of
\* its cells and another dude stood outside it.
C21_Witness ==
    /\ pc = "dudes"
    /\ call.op = "load" /\ call.reload /\ call.ci = <<-1, 0>>
    /\ \E p \in DOMAIN call.serial.v[2] : InFootprint(call.ci, p)
    /\ \E p \in DOMAIN dudes : ~InFootprint(call.ci, p)
    /\ Cardinality(DOMAIN dudes) >= 2


\* C24: unload(ci) for a chunk that is not resident returns NoChunkInWorld
\* and changes nothing: the residency map, the object map, the loaded
\* regions with their dirty sets and the region files are as before (no
\* region is opened, nothing is written).
C24_UnloadOfAbsentChunkChangesNothing ==
    [][(pc = "dudes" /\ call'.op = "unload_absent") =>
          /\ call'.status = "no_chunk_in_world"
          /\ chunks' = chunks
          /\ dudes' = dudes
          /\ regions' = regions
          /\ disk' = disk]_vars

\* unload was called for a chunk that is not resident, whose record is in a
\* region file, whose region is not loaded, and on whose cells a dude stands.
C24_Witness ==
    /\ pc = "dudes"
    /\ call.op = "unload_absent"
    /\ get_region_index(call.ci) \notin DOMAIN regions
    /\ \E o \in OnDisk(call.ci) : o.status = "ok"
    /\ \E p \in DOMAIN dudes : InFootprint(call.ci, p)

(***************************************************************************)
(* Claims about read_chunk (SpecRegion)                                    *)
(***************************************************************************)
\* The reads the controller may issue: chunks that are not unsaved.
IssuableReads == {ci \in RegionChunks : ci \notin regions[R0]}

\* C22: read_chunk(ci) on a slot whose sector count is 0 returns
\* NoChunkInSavefile with the local index of ci and leaves the dirty set as
\* it was; on a non-empty slot an Ok result is the payload of the record the
\* slot refers to and ci has joined the dirty set; a read that does not
\* return Ok leaves the dirty set as it was.  (read_chunk has no write.)
C22_ReadMarksDirtyOnlyOnSuccess ==
    pc = "region" =>
      /\ \A ci \in IssuableReads :
            LET f     == disk[R0]
                slot  == SlotOf(f, ci)
                local == <<FloorMod(ci[1], REGION_WIDTH), FloorMod(ci[2], REGION_WIDTH)>>
            IN  \A out \in read_chunk(f, regions[R0], ci) :
                  /\ slot[2] = 0 =>
                        /\ out.status = "no_chunk"
                        /\ out.err = <<"NoChunkInSavefile", local>>
                  /\ slot[2] # 0 => out.status # "no_chunk"
                  /\ out.status = "ok" =>
                        /\ out.unsaved = regions[R0] \cup {ci}
                        /\ out.chunk =
                             read_bytes(f, lookup_table_size + slot[1] * SECTOR_SIZE,
                                        slot[2] * SECTOR_SIZE)[1].p
                  /\ out.status # "ok" => out.unsaved = regions[R0]
      /\ rlog.op = "read" => rlog.ci \in regions[R0]

\* A read has just returned a payload and marked its chunk, and of the reads
\* that can be issued now one finds a non-empty slot whose record does not
\* decode.
C22_Witness ==
    /\ pc = "region"
    /\ rlog.op = "read" /\ rlog.ci \in regions[R0]
    /\ \E ci \in IssuableReads :
          \E out \in read_chunk(disk[R0], regions[R0], ci) : out.status = "err"

(***************************************************************************)
(* Claims about failed loads and unloads (SpecFault)                       *)
(***************************************************************************)
\* C23: when read_chunk fails inside load(ci) with an error value other
\* than NoChunkInSavefile, load(ci) returns the error: the call does not go
\* on, ci does not become resident, the generator is not run for ci and ci
\* does not join a dirty set (from where a later unload would overwrite the
\* record that could not be read).
C23_FailedReadIsReturnedWithoutGenerating ==
    (rlog.op = "load_fault" /\ rlog.ended # "panicked") =>
        /\ rlog.ended = "returned_err"
        /\ pc = "failed"
        /\ ~chunk_loaded(TheWorld, rlog.ci)
        /\ rlog.ci \notin call.gens
        /\ \A r \in DOMAIN regions : rlog.ci \notin regions[r]


\* C27: when update_chunks() or save() returns the Err of a write_chunk
\* that failed inside an unload, every chunk that is in a region's dirty set
\* is still resident: no chunk is left unsaved with its payload gone from
\* memory.
C27_FailedWriteLeavesDirtyChunksResident ==
    (pc \in {"failed", "save_failed"} /\ rlog.op \in {"unload_fault", "save_fault"}) =>
        \A r \in DOMAIN regions : \A ci \in regions[r] : chunk_loaded(TheWorld, ci)

(***************************************************************************)
(* Claims about residency, dirty sets and loaded regions (Spec)            *)
(***************************************************************************)
\* The residency map of the next state holds what this one holds, and ci.
OnlyGained(ci) ==
    /\ ci \notin DOMAIN chunks
    /\ DOMAIN chunks' = DOMAIN chunks \cup {ci}
    /\ Cardinality(DOMAIN chunks') = Cardinality(DOMAIN chunks) + 1
    /\ \A c \in DOMAIN chunks : chunks'[c] = chunks[c]

\* The residency map of the next state holds what this one holds, but ci.
OnlyLost(ci) ==
    /\ ci \in DOMAIN chunks
    /\ DOMAIN chunks' = DOMAIN chunks \ {ci}
    /\ Cardinality(DOMAIN chunks') = Cardinality(DOMAIN chunks) - 1
    /\ \A c \in DOMAIN chunks' : chunks'[c] = chunks[c]

\* C25: every load that returns Ok, from disk or from the generator, makes
\* one chunk resident that was not, and every unload that returns Ok takes
\* one resident chunk out; the resident count moves by exactly one and no
\* other chunk enters, leaves or changes (the count assertions hold), and
\* no load or unload panics.
C25_LoadAndUnloadMoveExactlyOneChunk ==
    [][/\ (pc = "updating" /\ call'.loads # call.loads) =>
             \E ci \in call'.loads \ call.loads :
                 /\ call'.loads = call.loads \cup {ci}
                 /\ OnlyGained(ci)
       /\ (pc \in {"updating", "saving"} /\ call'.unloads # call.unloads) =>
             \E ci \in call'.unloads \ call.unloads :
                 /\ call'.unloads = call.unloads \cup {ci}
                 /\ pc' = pc
                 /\ OnlyLost(ci)
       /\ pc' # "panicked"]_vars

\* An update_chunks() under way that has loaded chunks from their region
\* files and unloaded others.
C25_Witness ==
    /\ pc = "updating"
    /\ call.loads \ call.gens # {}
    /\ call.unloads # {}
    /\ call.loads \subseteq DOMAIN chunks
    /\ call.unloads \cap DOMAIN chunks = {}

\* The dirty set read_chunk(ci) or write_chunk(ci, _) finds in the region
\* that get_for_chunk(ci) returns in world w.
DirtySetFor(w, ci) == get_for_chunk(w, ci).regions[get_region_index(ci)]

\* The chunks the load loop of update_chunks calls load_chunk for.
PendingLoads == {ci \in relevant(observer) : ~chunk_loaded(TheWorld, ci)}

\* The chunks update_chunks or save may call unload_chunk for.
PendingUnloads ==
    IF pc = "updating"
    THEN {ci \in DOMAIN chunks \ call.unloads :
            must_unload(TheWorld, relevant(observer), ci)}
    ELSE DOMAIN chunks

\* C26: as long as every earlier operation succeeded, each read_chunk(ci)
\* the controller issues finds ci outside its region's dirty set and each
\* write_chunk(ci, _) it issues finds ci inside it, so neither precondition
\* assertion fails and no call panics.
C26_ReadAndWritePreconditionsHold ==
    /\ pc # "panicked"
    /\ pc = "updating" =>
          \A ci \in PendingLoads : ci \notin DirtySetFor(TheWorld, ci)
    /\ pc \in {"idle", "updating", "saving"} =>
          \A ci \in PendingUnloads :
              ci \in DirtySetFor([TheWorld EXCEPT !.chunks = MapDel(@, ci)], ci)

\* update_chunks() is about to read a chunk that has a record in a region
\* file whose region is loaded with unsaved chunks, and has chunks to write.
C26_Witness ==
    /\ pc = "updating"
    /\ \E ci \in PendingLoads :
          /\ \E o \in OnDisk(ci) : o.status = "ok"
          /\ get_region_index(ci) \in DOMAIN regions
          /\ regions[get_region_index(ci)] # {}
    /\ PendingUnloads # {}

\* The step in which update_chunks() calls prune_empty() and returns.
PruneStep == pc = "updating" /\ ~call.done /\ call'.done

\* C28: prune_empty() removes the loaded regions whose dirty set is empty
\* and no other: afterwards every loaded region has a non-empty dirty set,
\* every region that had one is still loaded with the same set, and the
\* region files (and the residency map) are as before.
C28_PruneRemovesExactlyEmptyRegions ==
    [][PruneStep =>
          /\ DOMAIN regions' = {r \in DOMAIN regions : regions[r] # {}}
          /\ \A r \in DOMAIN regions' : regions'[r] # {} /\ regions'[r] = regions[r]
          /\ disk' = disk
          /\ chunks' = chunks]_vars

\* update_chunks() has returned after unloading chunks; a region file exists
\* whose region is no longer loaded, and other regions are still loaded.
C28_Witness ==
    /\ pc = "idle" /\ call.op = "update" /\ call.done
    /\ call.unloads # {}
    /\ \E r \in DOMAIN disk : r \notin DOMAIN regions
    /\ DOMAIN regions # {}
    /\ \A r \in DOMAIN regions : regions[r] # {}

\* C29: after every update_chunks() that returns Ok no chunk outside the
\* window is in a dirty set, and the loaded regions are exactly the regions
\* of the resident chunks: a region opened during the call that owns no
\* resident chunk at its end has been evicted.
C29_AfterUpdateLoadedRegionsOwnResidentChunks ==
    UpdateReturnedOk =>
        /\ \A r \in DOMAIN regions :
              regions[r] \subseteq Diamond(from_world_pos(observer))
        /\ DOMAIN regions = {get_region_index(ci) : ci \in DOMAIN chunks}

\* An update_chunks() that loaded and unloaded chunks has returned Ok; the
\* window lies in several regions, and a region it wrote chunks back to is
\* not loaded.
C29_Witness ==
    /\ UpdateReturnedOk
    /\ call.loads # {} /\ call.unloads # {}
    /\ Cardinality(DOMAIN regions) >= 2
    /\ \E ci \in call.unloads :
          /\ get_region_index(ci) \notin DOMAIN regions
          /\ \E o \in OnDisk(ci) : o.status = "ok"

\* The chunks get_for_chunk is called for: those of the window and the
\* resident ones.
ChunksAskedFor == Diamond(from_world_pos(observer)) \cup DOMAIN chunks

\* C30: get_for_chunk(ci) leaves the region with index get_region_index(ci)
\* loaded: opened with an empty dirty set when it was not loaded, and as it
\* was, dirty set included, when it was; every other loaded region is as
\* before, no other region is loaded, and the manager holds one region per
\* region index (it is a map keyed by the index).
C30_GetForChunkLoadsOnceAndKeepsDirtySets ==
    pc \in {"idle", "updating", "saving"} =>
      \A ci \in ChunksAskedFor :
        LET w1 == get_for_chunk(TheWorld, ci)
            ri == get_region_index(ci)
        IN  /\ DOMAIN w1.regions = DOMAIN regions \cup {ri}
            /\ w1.regions[ri] = IF ri \in DOMAIN regions THEN regions[ri] ELSE {}
            /\ \A r \in DOMAIN regions : w1.regions[r] = regions[r]
            /\ ri \in DOMAIN w1.disk
            /\ \A r \in DOMAIN disk : w1.disk[r] = disk[r]
            /\ w1.chunks = chunks

\* Of the chunks get_for_chunk may be called for, one lies in a region that
\* is loaded with unsaved chunks and one in a region that is not loaded and
\* has no file yet.
C30_Witness ==
    /\ pc = "updating"
    /\ \E ci \in ChunksAskedFor :
          /\ get_region_index(ci) \in DOMAIN regions
          /\ regions[get_region_index(ci)] # {}
    /\ \E ci \in ChunksAskedFor : get_region_index(ci) \notin DOMAIN disk

(***************************************************************************)
(* Claims about the region file, further (SpecRegionFault, SpecRegion)     *)
(***************************************************************************)
\* The step is a write_chunk call on an empty slot that stopped with Err.
AppendStopped ==
    /\ pc = "region"
    /\ rlog'.op = "err"
    /\ SlotOf(disk[R0], rlog'.ci)[2] = 0

\* C31: append_chunk writes the record before the slot: when it stops
\* before the slot is written, with the record not yet or already in the
\* file, the slot of the chunk is still empty, every slot is as it was and
\* the bytes the file held are as they were (the record lies behind them).
C31_AppendWritesRecordBeforeSlot ==
    [][AppendStopped =>
          /\ SlotOf(disk'[R0], rlog'.ci) = <<0, 0>>
          /\ disk'[R0].tbl = disk[R0].tbl
          /\ FileLen(disk'[R0]) >= FileLen(disk[R0])
          /\ TakeBytes(disk'[R0].data, DataLen(disk[R0].data)) = disk[R0].data]_vars

\* An append stopped after the record was written: the record is the last
\* thing in the file, the slot of the chunk is empty, another chunk has a
\* record and a slot.
C31_Witness ==
    /\ pc = "region"
    /\ rlog.op = "err"
    /\ SlotOf(disk[R0], rlog.ci) = <<0, 0>>
    /\ disk[R0].data # <<>>
    /\ disk[R0].data[Len(disk[R0].data)].p = rlog.chunk
    /\ \E ci \in RegionChunks : SlotOf(disk[R0], ci)[2] # 0

(***************************************************************************)
(* Claims about the save directory (Spec)                                  *)
(***************************************************************************)
\* C32: a region file that comes into being holds the lookup table,
\* 2 * REGION_WIDTH^2 zero bytes, and nothing else; a step that opens the
\* region of an existing file to read a chunk leaves the file as it was; no
\* file disappears, none is ever shorter than the lookup table and none gets
\* shorter.
C32_FileStartsAsEmptyTableAndNeverShrinks ==
    [][/\ \A r \in DOMAIN disk' \ DOMAIN disk :
             /\ disk'[r] = [tbl |-> EmptyMap, data |-> <<>>]
             /\ FileLen(disk'[r]) = 2 * REGION_WIDTH * REGION_WIDTH
             /\ \A off \in 0..(2 * REGION_WIDTH * REGION_WIDTH - 1) :
                   TableByte(disk'[r], off) = 0
       /\ \A r \in DOMAIN disk :
             /\ r \in DOMAIN disk'
             /\ FileLen(disk[r]) >= 2 * REGION_WIDTH * REGION_WIDTH
             /\ FileLen(disk'[r]) >= FileLen(disk[r])
             /\ (r \notin DOMAIN regions /\ r \in DOMAIN regions'
                   /\ call'.loads # call.loads) => disk'[r] = disk[r]]_vars

\* A World made after a save has loaded a chunk from a region file that
\* holds records; another region file exists whose region is not loaded.
C32_Witness ==
    /\ pc = "updating"
    /\ call.afterSave
    /\ call.loads \ call.gens # {}
    /\ \E r \in DOMAIN regions : FileLen(disk[r]) > lookup_table_size
    /\ \E r \in DOMAIN disk : r \notin DOMAIN regions

(***************************************************************************)
(* Claims about padding and the sector count (SpecPad)                     *)
(***************************************************************************)
\* The smallest multiple of size that is at least n.
NextMultiple(n, size) == ((n + size - 1) \div size) * size

\* C33: padding an encoded payload of n > 0 bytes yields the smallest
\* multiple of SECTOR_SIZE that is at least n, so a length that is already a
\* positive multiple of SECTOR_SIZE gains nothing and its sector count is
\* n / SECTOR_SIZE.
C33_PaddingReachesNextMultipleOnly ==
    (pc = "pad" /\ output.done) =>
        /\ input > 0 => output.padded = NextMultiple(input, SECTOR_SIZE)
        /\ (input > 0 /\ input % SECTOR_SIZE = 0) =>
              /\ output.padded = input
              /\ SlotOf(output.appended.file, <<0, 0>>)[2] = input \div SECTOR_SIZE

\* C40: for every encoded length n >= 0, the empty payload included, the
\* sector count append_chunk computes from the padded data is at least 1:
\* the assertion on a zero sector count holds, the append returns Ok and the
\* slot of the record does not look empty.
C40_SectorCountAtLeastOne ==
    (pc = "pad" /\ output.done) =>
        /\ output.padded >= SECTOR_SIZE
        /\ output.padded % SECTOR_SIZE = 0
        /\ output.appended.status = "ok"
        /\ SlotOf(output.appended.file, <<0, 0>>)[2] = output.padded \div SECTOR_SIZE
        /\ SlotOf(output.appended.file, <<0, 0>>)[2] >= 1

\* The empty payload was padded and appended; its record has one sector.
C40_Witness ==
    /\ pc = "pad" /\ output.done
    /\ input = 0
    /\ SlotOf(output.appended.file, <<0, 0>>)[2] = 1
    /\ FileLen(output.appended.file) = lookup_table_size + SECTOR_SIZE

StorageLocation(ci) == <<get_region_index(ci), normalize_chunk_index(ci)>>

ChunksOfRegion(r) == {b \in Coords \X Coords : get_region_index(b) = r}

C35_StorageLocationIsInjective ==
    output.done =>
        /\ \A b \in Coords \X Coords :
              b # input =>
                 /\ StorageLocation(b) # <<output.region, output.local>>
                 /\ get_region_index(b) = output.region =>
                       get_chunk_offset(normalize_chunk_index(b)) # output.slot
        /\ Cardinality(ChunksOfRegion(output.region))
              <= REGION_WIDTH * REGION_WIDTH

\* The chunk at (-REGION_WIDTH, 0) has been mapped; its region holds another
\* chunk with a negative coordinate and a chunk elsewhere has the same
\* region-local index.
C35_Witness ==
    /\ output.done
    /\ input = <<-REGION_WIDTH, 0>>
    /\ get_region_index(<<-REGION_WIDTH - 1, 0>>) = output.region
    /\ normalize_chunk_index(<<0, 0>>) = output.local
    /\ Cardinality(ChunksOfRegion(output.region)) = REGION_WIDTH * REGION_WIDTH

(***************************************************************************)
(* C36: starting from a new region file and through every write_chunk that *)
(* succeeds, the sector ranges [sector_offset, sector_offset +              *)
(* sector_count) of two distinct non-empty slots are disjoint and every    *)
(* such range ends at or before the end of the file.                       *)
(***************************************************************************)
SectorRange(f, ci) ==
    LET slot == SlotOf(f, ci)
    IN  slot[1]..(slot[1] + slot[2] - 1)

SectorRangesSound(f) ==
    /\ \A a, b \in RegionChunks :
          (a # b /\ SlotOf(f, a)[2] # 0 /\ SlotOf(f, b)[2] # 0)
              => SectorRange(f, a) \cap SectorRange(f, b) = {}
    /\ \A a \in RegionChunks :
          SlotOf(f, a)[2] # 0 =>
              lookup_table_size + (SlotOf(f, a)[1] + SlotOf(f, a)[2]) * SECTOR_SIZE
                  <= FileLen(f)

WriteSucceeded ==
    /\ pc = "region"
    /\ pc' = "region"
    /\ \E ci \in regions[R0] : regions'[R0] = regions[R0] \ {ci}

C36_SectorRangesDisjointAndInsideFile ==
    /\ SectorRangesSound(disk[R0])
    /\ [][(SectorRangesSound(disk[R0]) /\ WriteSucceeded)
             => SectorRangesSound(disk'[R0])]_vars

\* Two records fill the 256 sectors a slot can address: one sector at
\* offset 0, rewritten in place since, and 255 sectors behind it.
C36_Witness ==
    /\ pc = "region"
    /\ SectorRangesSound(disk[R0])
    /\ SlotOf(disk[R0], <<-15, -2>>) = <<0, 1>>
    /\ SlotOf(disk[R0], BigChunk) = <<1, 255>>
    /\ FileLen(disk[R0]) = lookup_table_size + U8_RANGE * SECTOR_SIZE
    /\ DOMAIN rlog.written = {<<-15, -2>>, BigChunk}
    /\ rlog.written[<<-15, -2>>].v = <<1>>
    /\ regions[R0] = {}

(***************************************************************************)
(* C37: lookup-table slots are write-once: a slot whose sector count is    *)
(* not zero keeps its sector offset and its sector count through every     *)
(* later step, be it a write of the same or of another chunk, a read, or   *)
(* the reopening of the file by a new process.                             *)
(***************************************************************************)
SlotAt(f, off) == read_table_bytes(f, off)

SlotOffsets(f) == {off - (off % 2) : off \in DOMAIN f.tbl}

C37_NonEmptySlotsNeverChange ==
    [][\A r \in DOMAIN disk :
          /\ r \in DOMAIN disk'
          /\ \A off \in SlotOffsets(disk[r]) :
                SlotAt(disk[r], off)[2] # 0
                    => SlotAt(disk'[r], off) = SlotAt(disk[r], off)]_vars

\* A record of two sectors was rewritten in place with a payload that needs
\* one, and read back: the slot still names two sectors, and another chunk
\* has been appended behind it.
C37_Witness ==
    /\ pc = "region"
    /\ rlog.op = "read"
    /\ rlog.chunk.len = 0
    /\ SlotOf(disk[R0], rlog.ci) = <<0, 2>>
    /\ \E b \in RegionChunks : SlotOf(disk[R0], b)[1] = 2

(***************************************************************************)
(* C38: after every load, unload, update_chunks or save that has not       *)
(* failed, the union of the dirty sets of the loaded regions is the set of *)
(* resident chunk indices, and every dirty chunk index sits in the dirty   *)
(* set of the region get_region_index names for it.                        *)
(***************************************************************************)
DirtyUnion == UNION {regions[r] : r \in DOMAIN regions}

NoOperationFailed == pc \in {"idle", "updating", "saving", "saved"}

C38_DirtyExactlyWhileResident ==
    NoOperationFailed =>
        /\ DirtyUnion = DOMAIN chunks
        /\ \A r \in DOMAIN regions :
              \A ci \in regions[r] : get_region_index(ci) = r

\* An update after a save has ended: it read some chunks back from their
\* region files and generated others, in more than one region.
C38_Witness ==
    /\ UpdateReturnedOk
    /\ call.gens # {}
    /\ call.loads \ call.gens # {}
    /\ Cardinality(DOMAIN regions) >= 2
    /\ DirtyUnion = DOMAIN chunks

(***************************************************************************)
(* C39: a write_chunk that succeeds, appending or updating in place,       *)
(* leaves the slot and the record bytes of every other chunk stored in    *)
(* the region file as they were.                                           *)
(***************************************************************************)
RecordBytes(f, ci) ==
    LET os == read_chunk_offset(f, normalize_chunk_index(ci))
    IN  read_bytes(f, os.offset, os.size)

C39_SuccessfulWriteTouchesOwnRecordOnly ==
    [][\A ci \in regions[R0] :
          (pc = "region" /\ pc' = "region" /\ regions'[R0] = regions[R0] \ {ci})
              => \A b \in RegionChunks \ {ci} :
                    SlotOf(disk[R0], b)[2] # 0
                        => /\ SlotOf(disk'[R0], b) = SlotOf(disk[R0], b)
                           /\ RecordBytes(disk'[R0], b) = RecordBytes(disk[R0], b)]_vars

====
